---- MODULE Spec2Model ----
(***************************************************************************)
(* Git Souji branch manager: the bulk delete handlers of the manager panel *)
(* (executeCleanup, executeRemoteCleanup, deleteSelectedBranches) running  *)
(* against a git repository, with the checkout handler as the other        *)
(* message that can be served while a bulk handler is suspended.           *)
(*                                                                         *)
(* Strings are sequences of one-character strings, so that startsWith,     *)
(* split('/') and join('/') are computed as the code computes them.        *)
(* Every await of a handler (a git command, a modal prompt, the refresh)   *)
(* is one step; a delete command may fail whenever git is asked for it,    *)
(* and fails always when git cannot do it.  The read-only listing of the   *)
(* local branches is taken to succeed.  A behaviour serves one bulk        *)
(* message (or the deleteRemote message of one remote branch), from a      *)
(* repository in which origin/fb may or may not exist.                     *)
(*                                                                         *)
(* SingleSpec has the handlers of one branch (checkout, rename,            *)
(* deleteLocal, mergeIntoCurrent).  The queries of the git layer are       *)
(* computed on the characters git prints: ProtectSpec (isProtectedBranch), *)
(* TrackSpec (parseTrackShort), DeadSpec (detectDeadBranches), GoneSpec    *)
(* (detectGoneBranches) and StateSpec (getState: the base branch and the   *)
(* local and remote listings with status) draw the arguments of one call   *)
(* and return its result; BaseSpec does so for resolveBaseBranch and       *)
(* getCurrentBranch with each of their commands failing or not.            *)
(* RefreshSpec runs overlapping refresh() calls one awaited git command at *)
(* a time, interleaved with each other and with a checkout.                *)
(***************************************************************************)
EXTENDS Integers, Sequences, FiniteSets, TLC

\* ---------------------------------------------------------------------
\* Bounds
\* ---------------------------------------------------------------------
\* longest list of names a panel message carries
MaxLen == 2
\* checkout messages handled in one behaviour (RefreshSpec: with one more
\* call of refresh() than that)
MaxCheckouts == 1

\* ---------------------------------------------------------------------
\* Strings
\* ---------------------------------------------------------------------
SLASH == "/"
STAR == "*"

origin == <<"o", "r", "i", "g", "i", "n">>
main == <<"m", "a", "i", "n">>
featA == <<"f", "a">>
featB == <<"f", "b">>

\* the remote branch  <remote>/<name>
Full(remote, name) == remote \o <<SLASH>> \o name

\* local branch names a message can carry
LocalNames == {featA, featB, main}
\* remote branch names (remote prefix included) a message can carry
RemoteNames == {Full(origin, n) : n \in LocalNames}
\* the rows whose checkout button is pressed
CheckoutNames == {featA, Full(origin, featA)}

NoUpstream == <<>>

startsWith(s, p) == Len(p) <= Len(s) /\ SubSeq(s, 1, Len(p)) = p
endsWith(s, p) == Len(p) <= Len(s) /\ SubSeq(s, Len(s) - Len(p) + 1, Len(s)) = p
includes(s, c) == \E i \in 1..Len(s) : s[i] = c
slice(s, from) == SubSeq(s, from, Len(s))

\* s.split(c): the pieces between the occurrences of the character c
RECURSIVE split(_, _)
split(s, c) ==
    IF ~includes(s, c) THEN <<s>>
    ELSE LET i == CHOOSE k \in 1..Len(s) :
                      s[k] = c /\ \A j \in 1..(k - 1) : s[j] # c
         IN <<SubSeq(s, 1, i - 1)>> \o split(slice(s, i + 1), c)

\* parts.join(sep)
RECURSIVE join(_, _)
join(parts, sep) ==
    IF parts = <<>> THEN <<>>
    ELSE IF Len(parts) = 1 THEN parts[1]
    ELSE parts[1] \o sep \o join(Tail(parts), sep)

\* ---------------------------------------------------------------------
\* isProtectedBranch
\* ---------------------------------------------------------------------
\* the characters escapeRegExp puts a backslash before: [.*+?^${}()|[\]\\]
RegExpMeta == {".", "*", "+", "?", "^", "$", "{", "}", "(", ")", "|", "[", "]", "\\"}

\* an escapeRegExp that leaves the string as it is
escapeRegExp_Unescaped(s) == s

\* s.replace(/[.*+?^${}()|[\]\\]/g, (r) => `\\${r}`)
RECURSIVE escapeRegExp(_)
escapeRegExp(s) ==
    IF s = <<>> THEN <<>>
    ELSE (IF Head(s) \in RegExpMeta THEN <<"\\", Head(s)>> ELSE <<Head(s)>>)
         \o escapeRegExp(Tail(s))

\* the regular expression re, read from its first character, matches a
\* prefix of s: an escaped character is itself, '.*' is any run of
\* characters, '.' any character, '$' the end of the input
RECURSIVE regExpMatch(_, _)
regExpMatch(re, s) ==
    IF re = <<>> THEN TRUE
    ELSE IF re = <<"$">> THEN s = <<>>
    ELSE IF Head(re) = "\\" /\ Len(re) >= 2
    THEN s # <<>> /\ Head(s) = re[2] /\ regExpMatch(slice(re, 3), Tail(s))
    ELSE IF Head(re) = "." /\ Len(re) >= 2 /\ re[2] = STAR
    THEN \E k \in 0..Len(s) : regExpMatch(slice(re, 3), slice(s, k + 1))
    ELSE IF Head(re) = "."
    THEN s # <<>> /\ regExpMatch(Tail(re), Tail(s))
    ELSE s # <<>> /\ Head(s) = Head(re) /\ regExpMatch(Tail(re), Tail(s))

\* segs.map(escapeRegExp)
escapeEach(segs) == [i \in 1..Len(segs) |-> escapeRegExp(segs[i])]

\* re.test(s): anchored at the start of s by a leading '^'
regExpTest(re, s) ==
    IF re # <<>> /\ Head(re) = "^" THEN regExpMatch(Tail(re), s)
    ELSE \E k \in 1..(Len(s) + 1) : regExpMatch(re, slice(s, k))

\* new RegExp('^' + p.split('*').map(escapeRegExp).join('.*') + '$').test(name)
globTest(name, p) ==
    regExpTest(<<"^">> \o join(escapeEach(split(p, STAR)), <<".", STAR>>) \o <<"$">>,
               name)

\* a prefix rule that takes 'release/*' for the directory release
prefixOf_WithoutSlash(p) ==
    IF Len(p) >= 2 /\ p[Len(p) - 1] = SLASH
    THEN SubSeq(p, 1, Len(p) - 2) ELSE SubSeq(p, 1, Len(p) - 1)

\* const prefix = p.slice(0, -1)
prefixOf(p) == SubSeq(p, 1, Len(p) - 1)

RECURSIVE isProtectedBranch(_, _)
isProtectedBranch(name, protectedList) ==
    IF protectedList = <<>> THEN FALSE
    ELSE LET p == Head(protectedList)
         IN IF Len(p) > 0 /\ p[Len(p)] = STAR
            THEN \/ startsWith(name, prefixOf(p))
                 \/ isProtectedBranch(name, Tail(protectedList))
            ELSE IF includes(p, STAR)
            THEN \/ globTest(name, p)
                 \/ isProtectedBranch(name, Tail(protectedList))
            ELSE \/ name = p
                 \/ isProtectedBranch(name, Tail(protectedList))

\* gitSouji.protectedBranches of the configuration in force
protectedBranches == << main, <<"r", "e", "l", "/", "*">> >>


\* ---------------------------------------------------------------------
\* State
\* ---------------------------------------------------------------------
VARIABLES
    cfg,              \* getCfg(): confirmBeforeDelete, forceDeleteLocal
    locals,           \* refs/heads: name -> [upstream]
    current,          \* the checked-out branch, or Detached
    remotes,          \* the branches of the remotes, as <remote>/<name>
    pc,               \* where the bulk handler is suspended
    op,               \* msg.type of the message being handled
    branches,         \* msg.branches / msg.localBranches
    remoteBranches,   \* msg.branches of executeRemoteCleanup / msg.remoteBranches
    includeRemote,    \* msg.includeRemote
    idx,              \* position of the running for-of loop
    failedLocal,
    stillFailed,
    deletedBranches,
    failedRemote,
    trackedRemotes,
    untrackedRemotes,
    cmds,             \* the delete commands handed to git by this handler
    prompts,          \* the modal confirmations shown by this handler
    warning,          \* the failure summary shown by this handler
    refreshes,        \* the handlers that called refresh(), in call order
    upstreamsAtStart, \* the upstream of every local branch when the handler started
    nCheckouts,
    msg,              \* the single-branch message being handled
    input,            \* what a query is called with: arguments and git's output
    output            \* what the query returned

repoVars == <<locals, current, remotes>>
msgVars == <<op, branches, remoteBranches, includeRemote>>
loopVars == <<idx, failedLocal, stillFailed, deletedBranches, failedRemote,
              trackedRemotes, untrackedRemotes>>
logVars == <<cmds, prompts, warning, refreshes, upstreamsAtStart>>
\* the state of the single-branch handlers and of the queries
auxVars == <<msg, input, output>>
vars == <<cfg, repoVars, pc, msgVars, loopVars, logVars, nCheckouts, auxVars>>

\* no call, no value
None == <<"n", "o", "n", "e">>
\* no single-branch message
NoMsg == [type |-> "none", name |-> <<>>, newName |-> <<>>]

Detached == <<"H", "E", "A", "D">>
NoWarning == [local |-> <<>>, remote |-> <<>>, shown |-> FALSE]

\* lists without repetition of at most n names of S: the panel sends the
\* names of a set of selected rows
RECURSIVE ListsOf(_, _)
ListsOf(S, n) ==
    IF n = 0 THEN {<<>>}
    ELSE LET shorter == ListsOf(S, n - 1)
         IN shorter \cup
            {Append(l, x) : <<l, x>> \in
                {<<l, x>> \in shorter \X S : \A i \in 1..Len(l) : l[i] # x}}

Range(s) == {s[i] : i \in 1..Len(s)}

Init ==
    /\ cfg \in [confirmBeforeDelete : BOOLEAN, forceDeleteLocal : BOOLEAN]
    /\ locals = [n \in LocalNames |->
                    [upstream |-> IF n = featB THEN NoUpstream ELSE Full(origin, n)]]
    /\ current = main
    /\ remotes \in {RemoteNames, RemoteNames \ {Full(origin, featB)}}
    /\ pc = "idle"
    /\ op = "none"
    /\ branches = <<>>
    /\ remoteBranches = <<>>
    /\ includeRemote = FALSE
    /\ idx = 1
    /\ failedLocal = <<>>
    /\ stillFailed = <<>>
    /\ deletedBranches = <<>>
    /\ failedRemote = <<>>
    /\ trackedRemotes = <<>>
    /\ untrackedRemotes = <<>>
    /\ cmds = <<>>
    /\ prompts = <<>>
    /\ warning = NoWarning
    /\ refreshes = <<>>
    /\ upstreamsAtStart = [n \in {} |-> NoUpstream]
    /\ nCheckouts = 0
    /\ msg = NoMsg
    /\ input = None
    /\ output = None

\* ---------------------------------------------------------------------
\* git commands
\* ---------------------------------------------------------------------
\* git branch -d|-D name can succeed only for an existing branch that is not
\* checked out; what the branch is merged into is not part of the state, so
\* the safe delete of such a branch, like the forced one, can end either way
deleteLocalBranchOutcomes(name, force) ==
    IF name \in DOMAIN locals /\ name # current
    THEN {TRUE, FALSE} ELSE {FALSE}

\* refs/heads after a git branch -d|-D name that ended with ok
deleteLocalBranch(name, ok) ==
    IF ok THEN [n \in DOMAIN locals \ {name} |-> locals[n]] ELSE locals

\* git push remote --delete name can succeed only for an existing branch
deleteRemoteBranchOutcomes(remote, name) ==
    IF Full(remote, name) \in remotes THEN {TRUE, FALSE} ELSE {FALSE}

deleteRemoteBranch(remote, name, ok) ==
    IF ok THEN remotes \ {Full(remote, name)} ELSE remotes

\* listLocalBranches + the Map of the rows that have an upstream
getUpstreamMap ==
    [n \in {l \in DOMAIN locals : locals[l].upstream # NoUpstream} |->
        locals[n].upstream]

\* log entries: git branch -d|-D name, issued by the first pass (1) or the
\* retry (2), and git push remote --delete name, issued by the loop  via
LocalCmd(name, force, ok, pass) ==
    [kind |-> "local", remote |-> <<>>, name |-> name, force |-> force,
     ok |-> ok, pass |-> pass]
RemoteCmd(remote, name, ok, via) ==
    [kind |-> via, remote |-> remote, name |-> name, force |-> FALSE,
     ok |-> ok, pass |-> 0]


\* ---------------------------------------------------------------------
\* The bulk delete handlers of onDidReceiveMessage
\* ---------------------------------------------------------------------
\* confirm(message): the modal prompt, logged with the user's answer
confirm(kind, answer) == Append(prompts, [kind |-> kind, answer |-> answer])

\* the bulk message of the behaviour arrives: the locals of the handler are
\* fresh
Receive(type, locs, rems, inc) ==
    /\ pc = "idle"
    /\ op = "none"
    /\ op' = type
    /\ branches' = locs
    /\ remoteBranches' = rems
    /\ includeRemote' = inc
    /\ idx' = 1
    /\ failedLocal' = <<>>
    /\ stillFailed' = <<>>
    /\ deletedBranches' = <<>>
    /\ failedRemote' = <<>>
    /\ trackedRemotes' = <<>>
    /\ untrackedRemotes' = <<>>
    /\ cmds' = <<>>
    /\ prompts' = <<>>
    /\ warning' = NoWarning
    /\ upstreamsAtStart' = [n \in DOMAIN locals |-> locals[n].upstream]
    /\ UNCHANGED <<auxVars, cfg, repoVars, refreshes, nCheckouts>>

\* the first loop of the handler once the user let it proceed
FirstLoop(type) ==
    IF type = "executeRemoteCleanup" THEN "remoteLoop"
    ELSE IF type = "deleteRemote" THEN "deleteRemote"
    ELSE "localPass"

\* the empty-list break and  proceed = !cfg.confirmBeforeDelete || await confirm(..)
Entry(type, total) ==
    IF total = 0 THEN "idle"
    ELSE IF cfg.confirmBeforeDelete THEN "confirm"
    ELSE FirstLoop(type)

\* case 'executeCleanup'
ExecuteCleanup ==
    \E bs \in ListsOf(LocalNames, MaxLen), inc \in BOOLEAN :
        /\ Receive("executeCleanup", bs, <<>>, inc)
        /\ pc' = Entry("executeCleanup", Len(bs))

\* case 'executeRemoteCleanup'
ExecuteRemoteCleanup ==
    \E bs \in ListsOf(RemoteNames, MaxLen) :
        /\ Receive("executeRemoteCleanup", <<>>, bs, FALSE)
        /\ pc' = Entry("executeRemoteCleanup", Len(bs))

\* case 'deleteSelectedBranches'
DeleteSelectedBranches ==
    \E ls \in ListsOf(LocalNames, MaxLen), rs \in ListsOf(RemoteNames, MaxLen) :
        /\ Len(ls) + Len(rs) <= MaxLen
        /\ Receive("deleteSelectedBranches", ls, rs, FALSE)
        /\ pc' = Entry("deleteSelectedBranches", Len(ls) + Len(rs))

\* case 'deleteRemote': a protected msg.name ends the handler with a warning,
\* any other is confirmed whatever cfg.confirmBeforeDelete says; the message
\* is kept as <remote>/<name>
DeleteRemoteMsg ==
    \E n \in LocalNames :
        /\ Receive("deleteRemote", <<>>, <<Full(origin, n)>>, FALSE)
        /\ pc' = IF isProtectedBranch(n, protectedBranches) THEN "idle" ELSE "confirm"

\* a handler that goes on whatever the answer to the first confirmation
afterConfirm_AnswerIgnored(answer) == FirstLoop(op)

\* if (!proceed) break
afterConfirm(answer) == IF answer THEN FirstLoop(op) ELSE "idle"

\* the user answers the first confirmation
ConfirmDelete ==
    /\ pc = "confirm"
    /\ \E answer \in BOOLEAN :
          /\ prompts' = confirm("delete", answer)
          /\ pc' = afterConfirm(answer)
    /\ UNCHANGED <<auxVars, cfg, repoVars, msgVars, loopVars, cmds, warning, refreshes,
                   upstreamsAtStart, nCheckouts>>

\* what follows the local deletions
AfterLocal ==
    IF op = "deleteSelectedBranches" THEN "remoteLoop"
    ELSE IF includeRemote THEN "getUpstreamMap"
    ELSE "report"

\* a loop without the try: the failure ends the handler in its outer catch
afterLocalDelete_Uncaught(ok) == IF ok THEN "localPass" ELSE "idle"

\* try { await deleteLocalBranch(..) } catch { failedLocal.push(name) }: the
\* loop goes on whatever the outcome
afterLocalDelete(ok) == "localPass"

\* for (const name of branches): deleteLocalBranch(name, cfg.forceDeleteLocal)
LocalPass ==
    /\ pc = "localPass"
    /\ idx <= Len(branches)
    /\ LET name == branches[idx]
       IN \E ok \in deleteLocalBranchOutcomes(name, cfg.forceDeleteLocal) :
             /\ locals' = deleteLocalBranch(name, ok)
             /\ cmds' = Append(cmds, LocalCmd(name, cfg.forceDeleteLocal, ok, 1))
             /\ deletedBranches' =
                   IF ok /\ op = "executeCleanup"
                   THEN Append(deletedBranches, name) ELSE deletedBranches
             /\ failedLocal' = IF ok THEN failedLocal ELSE Append(failedLocal, name)
             /\ pc' = afterLocalDelete(ok)
    /\ idx' = idx + 1
    /\ UNCHANGED <<auxVars, cfg, current, remotes, msgVars, stillFailed, failedRemote,
                   trackedRemotes, untrackedRemotes, prompts, warning, refreshes,
                   upstreamsAtStart, nCheckouts>>

\* an offer that does not look at forceDeleteLocal
offersForceDelete_WhateverCfg == Len(failedLocal) > 0

\* if (failedLocal.length > 0 && !cfg.forceDeleteLocal)
offersForceDelete == Len(failedLocal) > 0 /\ ~cfg.forceDeleteLocal

\* the first pass is over
LocalPassDone ==
    /\ pc = "localPass"
    /\ idx > Len(branches)
    /\ pc' = IF offersForceDelete THEN "confirmForce" ELSE AfterLocal
    /\ idx' = 1
    /\ UNCHANGED <<auxVars, cfg, repoVars, msgVars, failedLocal, stillFailed, deletedBranches,
                   failedRemote, trackedRemotes, untrackedRemotes, logVars,
                   nCheckouts>>

\* the user answers 'N branches are not fully merged. Force delete them?'
ConfirmForce ==
    /\ pc = "confirmForce"
    /\ \E answer \in BOOLEAN :
          /\ prompts' = confirm("force", answer)
          /\ pc' = IF answer THEN "forcePass" ELSE AfterLocal
    /\ UNCHANGED <<auxVars, cfg, repoVars, msgVars, loopVars, cmds, warning, refreshes,
                   upstreamsAtStart, nCheckouts>>

\* a retry loop that walks the whole input again
forceRetryNames_AllNames == branches

\* the names the retry loop walks: for (const name of failedLocal)
forceRetryNames == failedLocal

\* for (const name of failedLocal): deleteLocalBranch(name, true)
ForcePass ==
    /\ pc = "forcePass"
    /\ idx <= Len(forceRetryNames)
    /\ LET name == forceRetryNames[idx]
       IN \E ok \in deleteLocalBranchOutcomes(name, TRUE) :
             /\ locals' = deleteLocalBranch(name, ok)
             /\ cmds' = Append(cmds, LocalCmd(name, TRUE, ok, 2))
             /\ deletedBranches' =
                   IF ok /\ op = "executeCleanup"
                   THEN Append(deletedBranches, name) ELSE deletedBranches
             /\ stillFailed' = IF ok THEN stillFailed ELSE Append(stillFailed, name)
    /\ idx' = idx + 1
    /\ UNCHANGED <<auxVars, cfg, current, remotes, pc, msgVars, failedLocal, failedRemote,
                   trackedRemotes, untrackedRemotes, prompts, warning, refreshes,
                   upstreamsAtStart, nCheckouts>>

\* a retry that forgets the names it could not delete
failedAfterRetry_Dropped == <<>>

\* a retry that does not empty failedLocal before the push
failedAfterRetry_NotCleared == failedLocal \o stillFailed

\* failedLocal.length = 0; failedLocal.push(...stillFailed)
failedAfterRetry == stillFailed

\* the retry loop is over
ForcePassDone ==
    /\ pc = "forcePass"
    /\ idx > Len(forceRetryNames)
    /\ failedLocal' = failedAfterRetry
    /\ pc' = AfterLocal
    /\ idx' = 1
    /\ UNCHANGED <<auxVars, cfg, repoVars, msgVars, stillFailed, deletedBranches, failedRemote,
                   trackedRemotes, untrackedRemotes, logVars, nCheckouts>>


\* ---------------------------------------------------------------------
\* executeCleanup: the remote cascade
\* ---------------------------------------------------------------------
\* the entry of a deleted branch that has an upstream  <remote>/<rName>
TrackedEntry(up) ==
    LET parts == split(up, SLASH)
    IN [remote |-> Head(parts), name |-> join(Tail(parts), <<SLASH>>), full |-> up]

UntrackedEntry(name) ==
    [remote |-> origin, name |-> name, full |-> Full(origin, name)]

hasUpstream(upstreams, name) ==
    /\ name \in DOMAIN upstreams
    /\ upstreams[name] # <<>>
    /\ includes(upstreams[name], SLASH)

\* for (const name of deletedBranches): the trackedRemotes.push(..) branch
RECURSIVE trackedOf(_, _)
trackedOf(names, upstreams) ==
    IF names = <<>> THEN <<>>
    ELSE LET name == Head(names)
             rest == trackedOf(Tail(names), upstreams)
         IN IF /\ hasUpstream(upstreams, name)
               /\ ~isProtectedBranch(TrackedEntry(upstreams[name]).name, protectedBranches)
            THEN <<TrackedEntry(upstreams[name])>> \o rest
            ELSE rest

\* a cascade that takes every deleted name, protected or not
untrackedOf_Unchecked(names, upstreams) ==
    [i \in 1..Len(names) |-> UntrackedEntry(names[i])]

\* a cascade that takes every name of the message, deleted or not
untrackedOf_WholeInput(names, upstreams) ==
    [i \in 1..Len(branches) |-> UntrackedEntry(branches[i])]

\* for (const name of deletedBranches): the untrackedRemotes.push(..) branch
RECURSIVE untrackedOf(_, _)
untrackedOf(names, upstreams) ==
    IF names = <<>> THEN <<>>
    ELSE LET name == Head(names)
             rest == untrackedOf(Tail(names), upstreams)
         IN IF /\ ~hasUpstream(upstreams, name)
               /\ ~isProtectedBranch(name, protectedBranches)
            THEN <<UntrackedEntry(name)>> \o rest
            ELSE rest

\* const upstreams = await getUpstreamMap(repo.repoRoot), and the split of
\* deletedBranches into tracked and untracked
GetUpstreamMap ==
    /\ pc = "getUpstreamMap"
    /\ trackedRemotes' = trackedOf(deletedBranches, getUpstreamMap)
    /\ untrackedRemotes' = untrackedOf(deletedBranches, getUpstreamMap)
    /\ pc' = "trackedLoop"
    /\ idx' = 1
    /\ UNCHANGED <<auxVars, cfg, repoVars, msgVars, failedLocal, stillFailed, deletedBranches,
                   failedRemote, logVars, nCheckouts>>

\* for (const { remote, name, full } of trackedRemotes)
TrackedLoop ==
    /\ pc = "trackedLoop"
    /\ idx <= Len(trackedRemotes)
    /\ LET t == trackedRemotes[idx]
       IN \E ok \in deleteRemoteBranchOutcomes(t.remote, t.name) :
             /\ remotes' = deleteRemoteBranch(t.remote, t.name, ok)
             /\ cmds' = Append(cmds, RemoteCmd(t.remote, t.name, ok, "tracked"))
             /\ failedRemote' = IF ok THEN failedRemote ELSE Append(failedRemote, t.full)
    /\ idx' = idx + 1
    /\ UNCHANGED <<auxVars, cfg, locals, current, pc, msgVars, failedLocal, stillFailed,
                   deletedBranches, trackedRemotes, untrackedRemotes, prompts,
                   warning, refreshes, upstreamsAtStart, nCheckouts>>

\* if (untrackedRemotes.length > 0)
asksUntracked == Len(untrackedRemotes) > 0

TrackedLoopDone ==
    /\ pc = "trackedLoop"
    /\ idx > Len(trackedRemotes)
    /\ pc' = IF asksUntracked THEN "confirmUntracked" ELSE "report"
    /\ idx' = 1
    /\ UNCHANGED <<auxVars, cfg, repoVars, msgVars, failedLocal, stillFailed, deletedBranches,
                   failedRemote, trackedRemotes, untrackedRemotes, logVars,
                   nCheckouts>>

\* a cascade that deletes whatever the answer
afterConfirmUntracked_AnswerIgnored(answer) == "untrackedLoop"

\* if (deleteUntracked) { .. }
afterConfirmUntracked(answer) == IF answer THEN "untrackedLoop" ELSE "report"

\* the user answers 'Also delete N remote branches with same name (not tracked)?'
ConfirmUntracked ==
    /\ pc = "confirmUntracked"
    /\ \E answer \in BOOLEAN :
          /\ prompts' = confirm("untracked", answer)
          /\ pc' = afterConfirmUntracked(answer)
    /\ UNCHANGED <<auxVars, cfg, repoVars, msgVars, loopVars, cmds, warning, refreshes,
                   upstreamsAtStart, nCheckouts>>

\* a catch that records the failure as the tracked loop does
failedRemoteAfterUntracked_Pushed(ok, full) ==
    IF ok THEN failedRemote ELSE Append(failedRemote, full)

\* the catch of the untracked loop: 'Ignore - might not exist on remote'
failedRemoteAfterUntracked(ok, full) == failedRemote

\* for (const { remote, name } of untrackedRemotes)
UntrackedLoop ==
    /\ pc = "untrackedLoop"
    /\ idx <= Len(untrackedRemotes)
    /\ LET u == untrackedRemotes[idx]
       IN \E ok \in deleteRemoteBranchOutcomes(u.remote, u.name) :
             /\ remotes' = deleteRemoteBranch(u.remote, u.name, ok)
             /\ cmds' = Append(cmds, RemoteCmd(u.remote, u.name, ok, "untracked"))
             /\ failedRemote' = failedRemoteAfterUntracked(ok, u.full)
    /\ idx' = idx + 1
    /\ UNCHANGED <<auxVars, cfg, locals, current, pc, msgVars, failedLocal, stillFailed,
                   deletedBranches, trackedRemotes, untrackedRemotes, prompts,
                   warning, refreshes, upstreamsAtStart, nCheckouts>>

UntrackedLoopDone ==
    /\ pc = "untrackedLoop"
    /\ idx > Len(untrackedRemotes)
    /\ pc' = "report"
    /\ idx' = 1
    /\ UNCHANGED <<auxVars, cfg, repoVars, msgVars, failedLocal, stillFailed, deletedBranches,
                   failedRemote, trackedRemotes, untrackedRemotes, logVars,
                   nCheckouts>>

\* ---------------------------------------------------------------------
\* executeRemoteCleanup, deleteSelectedBranches: the remote loop
\* ---------------------------------------------------------------------
\* for (const fullName of branches): a protected name is reported as failed
RemoteLoopProtected ==
    /\ pc = "remoteLoop"
    /\ idx <= Len(remoteBranches)
    /\ LET fullName == remoteBranches[idx]
           parts == split(fullName, SLASH)
           name == join(Tail(parts), <<SLASH>>)
       IN /\ isProtectedBranch(name, protectedBranches)
          /\ failedRemote' = Append(failedRemote, fullName)
    /\ idx' = idx + 1
    /\ UNCHANGED <<auxVars, cfg, repoVars, pc, msgVars, failedLocal, stillFailed,
                   deletedBranches, trackedRemotes, untrackedRemotes, logVars,
                   nCheckouts>>

\* for (const fullName of branches): deleteRemoteBranch(remote, name)
RemoteLoop ==
    /\ pc = "remoteLoop"
    /\ idx <= Len(remoteBranches)
    /\ LET fullName == remoteBranches[idx]
           parts == split(fullName, SLASH)
           remote == Head(parts)
           name == join(Tail(parts), <<SLASH>>)
       IN /\ ~isProtectedBranch(name, protectedBranches)
          /\ \E ok \in deleteRemoteBranchOutcomes(remote, name) :
                /\ remotes' = deleteRemoteBranch(remote, name, ok)
                /\ cmds' = Append(cmds, RemoteCmd(remote, name, ok, "selected"))
                /\ failedRemote' =
                      IF ok THEN failedRemote ELSE Append(failedRemote, fullName)
    /\ idx' = idx + 1
    /\ UNCHANGED <<auxVars, cfg, locals, current, pc, msgVars, failedLocal, stillFailed,
                   deletedBranches, trackedRemotes, untrackedRemotes, prompts,
                   warning, refreshes, upstreamsAtStart, nCheckouts>>

RemoteLoopDone ==
    /\ pc = "remoteLoop"
    /\ idx > Len(remoteBranches)
    /\ pc' = "report"
    /\ idx' = 1
    /\ UNCHANGED <<auxVars, cfg, repoVars, msgVars, failedLocal, stillFailed, deletedBranches,
                   failedRemote, trackedRemotes, untrackedRemotes, logVars,
                   nCheckouts>>

\* case 'deleteRemote': await deleteRemoteBranch(msg.remote, msg.name), then
\* the refresh; a failure ends the handler in its outer catch
DeleteRemoteBranch ==
    /\ pc = "deleteRemote"
    /\ LET parts == split(remoteBranches[1], SLASH)
           remote == Head(parts)
           name == join(Tail(parts), <<SLASH>>)
       IN \E ok \in deleteRemoteBranchOutcomes(remote, name) :
             /\ remotes' = deleteRemoteBranch(remote, name, ok)
             /\ cmds' = Append(cmds, RemoteCmd(remote, name, ok, "single"))
             /\ pc' = IF ok THEN "refresh" ELSE "idle"
    /\ UNCHANGED <<auxVars, cfg, locals, current, msgVars, loopVars, prompts, warning,
                   refreshes, upstreamsAtStart, nCheckouts>>

\* ---------------------------------------------------------------------
\* The failure summary and the refresh
\* ---------------------------------------------------------------------
\* if (failedLocal.length > 0 || failedRemote.length > 0) showWarningMessage(..);
\* the handler is then suspended in  await refresh()
Report ==
    /\ pc = "report"
    /\ warning' = [local |-> failedLocal, remote |-> failedRemote,
                   shown |-> Len(failedLocal) > 0 \/ Len(failedRemote) > 0]
    /\ pc' = "refresh"
    /\ UNCHANGED <<auxVars, cfg, repoVars, msgVars, loopVars, cmds, prompts, refreshes,
                   upstreamsAtStart, nCheckouts>>

\* await refresh(); break
Refresh ==
    /\ pc = "refresh"
    /\ refreshes' = Append(refreshes, op)
    /\ pc' = "idle"
    /\ UNCHANGED <<auxVars, cfg, repoVars, msgVars, loopVars, cmds, prompts, warning,
                   upstreamsAtStart, nCheckouts>>

\* ---------------------------------------------------------------------
\* case 'checkout': it can be served while a bulk handler is suspended
\* ---------------------------------------------------------------------
\* the local name of the remote ref: name.split('/').slice(1).join('/')
localNameOf(name) == join(Tail(split(name, SLASH)), <<SLASH>>)

\* refs/heads after git created the branch n tracking the remote ref up
withTracking(n, up) ==
    [b \in DOMAIN locals \cup {n} |-> IF b = n THEN [upstream |-> up] ELSE locals[b]]

\* checkoutBranch(name): the existing local branch; else a new local branch
\* tracking the remote ref name; else git checkout name, which detaches HEAD
\* at a remote ref, creates the branch name from origin/name when there is
\* one, and fails otherwise (the handler then shows the error and does not
\* refresh).  A checkout that git can do is taken to succeed.
Checkout ==
    /\ nCheckouts < MaxCheckouts
    /\ nCheckouts' = nCheckouts + 1
    /\ \E name \in CheckoutNames :
          IF name \in DOMAIN locals
          THEN /\ current' = name
               /\ refreshes' = Append(refreshes, "checkout")
               /\ UNCHANGED locals
          ELSE IF name \in remotes /\ localNameOf(name) \notin DOMAIN locals
          THEN /\ locals' = withTracking(localNameOf(name), name)
               /\ current' = localNameOf(name)
               /\ refreshes' = Append(refreshes, "checkout")
          ELSE IF name \in remotes
          THEN /\ current' = Detached
               /\ refreshes' = Append(refreshes, "checkout")
               /\ UNCHANGED locals
          ELSE IF Full(origin, name) \in remotes
          THEN /\ locals' = withTracking(name, Full(origin, name))
               /\ current' = name
               /\ refreshes' = Append(refreshes, "checkout")
          ELSE UNCHANGED <<locals, current, refreshes>>
    /\ UNCHANGED <<auxVars, cfg, remotes, pc, msgVars, loopVars, cmds, prompts, warning,
                   upstreamsAtStart>>

Next ==
    \/ ExecuteCleanup
    \/ ExecuteRemoteCleanup
    \/ DeleteSelectedBranches
    \/ DeleteRemoteMsg
    \/ DeleteRemoteBranch
    \/ ConfirmDelete
    \/ LocalPass
    \/ LocalPassDone
    \/ ConfirmForce
    \/ ForcePass
    \/ ForcePassDone
    \/ GetUpstreamMap
    \/ TrackedLoop
    \/ TrackedLoopDone
    \/ ConfirmUntracked
    \/ UntrackedLoop
    \/ UntrackedLoopDone
    \/ RemoteLoopProtected
    \/ RemoteLoop
    \/ RemoteLoopDone
    \/ Report
    \/ Refresh
    \/ Checkout

Spec == Init /\ [][Next]_vars


\* ---------------------------------------------------------------------
\* Vocabulary of the properties
\* ---------------------------------------------------------------------
BulkOps == {"executeCleanup", "executeRemoteCleanup", "deleteSelectedBranches"}
LocalOps == {"executeCleanup", "deleteSelectedBranches"}

Total == Len(branches) + Len(remoteBranches)

\* the user declined the first confirmation of the handler
Declined ==
    /\ Len(prompts) >= 1
    /\ prompts[1] = [kind |-> "delete", answer |-> FALSE]

\* the handler is past the empty-list break and the first confirmation
Proceeded ==
    /\ op \in BulkOps
    /\ Total > 0
    /\ pc # "confirm"
    /\ ~Declined

\* the local deletions (first pass and retry) are over
LocalPhaseOver ==
    /\ Proceeded
    /\ op \in LocalOps
    /\ pc \notin {"localPass", "confirmForce", "forcePass"}

\* the failure summary has been decided
Reported == Proceeded /\ pc \in {"refresh", "idle"}

\* the handler returned after its loops
Finished == Proceeded /\ pc = "idle"

LocalCmds == SelectSeq(cmds, LAMBDA c : c.kind = "local")
FirstPassCmds == SelectSeq(cmds, LAMBDA c : c.kind = "local" /\ c.pass = 1)
RetryCmds == SelectSeq(cmds, LAMBDA c : c.kind = "local" /\ c.pass = 2)
RemoteCmds == SelectSeq(cmds, LAMBDA c : c.kind # "local")
Asked(kind) == {i \in 1..Len(prompts) : prompts[i].kind = kind}
\* the prompts of a kind requested so far: the answered ones and the open one
Requested(kind, openPc) == Cardinality(Asked(kind)) + (IF pc = openPc THEN 1 ELSE 0)

NamesOf(cs) == [i \in 1..Len(cs) |-> cs[i].name]
FullOf(cs) == [i \in 1..Len(cs) |-> Full(cs[i].remote, cs[i].name)]
IsPrefix(s, t) == Len(s) <= Len(t) /\ SubSeq(t, 1, Len(s)) = s

\* ---------------------------------------------------------------------
\* C1
\* ---------------------------------------------------------------------
\* C1: in executeCleanup and deleteSelectedBranches no local delete command,
\* safe or forced, is issued for a name that matches a protected pattern.
C1_NoLocalDeleteOfProtected ==
    \A i \in 1..Len(cmds) :
        cmds[i].kind = "local" => ~isProtectedBranch(cmds[i].name, protectedBranches)

\* ---------------------------------------------------------------------
\* C2
\* ---------------------------------------------------------------------
\* the deleted branches that had an upstream with an unprotected branch name
\* when the cleanup started
DeletedWithUpstream ==
    {n \in Range(deletedBranches) :
        /\ hasUpstream(upstreamsAtStart, n)
        /\ ~isProtectedBranch(TrackedEntry(upstreamsAtStart[n]).name, protectedBranches)}

\* C2: in executeCleanup with remote cascade, once the cascade is over every
\* successfully deleted local branch that had an (unprotected) upstream when
\* the cleanup started has had that upstream deleted by the tracked loop, and
\* is not part of what the untracked-name prompt covers.
C2_UpstreamOfDeletedIsDeletedDirectly ==
    (op = "executeCleanup" /\ includeRemote /\ Reported) =>
        \A n \in DeletedWithUpstream :
            /\ \E i \in 1..Len(cmds) :
                  /\ cmds[i].kind = "tracked"
                  /\ Full(cmds[i].remote, cmds[i].name) = upstreamsAtStart[n]
            /\ \A j \in 1..Len(untrackedRemotes) : untrackedRemotes[j].name # n

\* ---------------------------------------------------------------------
\* C3
\* ---------------------------------------------------------------------
\* C3: in every bulk delete handler, when confirmBeforeDelete is set a command
\* is issued only after the first prompt, the delete confirmation, was
\* accepted; once it is declined no command is issued and no further prompt
\* is shown; an empty input list gives no prompt and no command.
C3_DeclineOrEmptyDoesNothing ==
    /\ Declined => cmds = <<>> /\ Len(prompts) = 1 /\ pc = "idle"
    /\ (cfg.confirmBeforeDelete /\ (cmds # <<>> \/ Len(prompts) > 1)) =>
          prompts[1] = [kind |-> "delete", answer |-> TRUE]
    /\ (op \in BulkOps /\ Total = 0) => cmds = <<>> /\ prompts = <<>> /\ pc = "idle"

\* the user declined the deletion of a non-empty selection
C3_Witness ==
    /\ Declined
    /\ cfg.confirmBeforeDelete
    /\ op = "deleteSelectedBranches"
    /\ Len(branches) > 0
    /\ Len(remoteBranches) > 0


\* ---------------------------------------------------------------------
\* C4
\* ---------------------------------------------------------------------
FailedIn(cs) == SelectSeq(cs, LAMBDA c : ~c.ok)
SucceededIn(cs) == SelectSeq(cs, LAMBDA c : c.ok)
CountLocal(n) == Cardinality({i \in 1..Len(cmds) : cmds[i].kind = "local" /\ cmds[i].name = n})

\* the force prompt was accepted and the retry loop has ended
RetryOver ==
    /\ LocalPhaseOver
    /\ \E i \in Asked("force") : prompts[i].answer

C5_ForceConfirmation ==
    /\ (op \in LocalOps /\ Proceeded /\ pc # "localPass") =>
          Requested("force", "confirmForce") =
              IF FailedIn(FirstPassCmds) # <<>> /\ ~cfg.forceDeleteLocal THEN 1 ELSE 0
    /\ pc = "localPass" => Requested("force", "confirmForce") = 0
    /\ cfg.forceDeleteLocal =>
          /\ \A i \in 1..Len(LocalCmds) : LocalCmds[i].force /\ LocalCmds[i].pass = 1
          /\ Requested("force", "confirmForce") = 0
    /\ ~cfg.forceDeleteLocal =>
          /\ \A i \in 1..Len(FirstPassCmds) : ~FirstPassCmds[i].force
          /\ RetryCmds # <<>> => \E i \in Asked("force") : prompts[i].answer
    /\ (\E i \in Asked("force") : ~prompts[i].answer) =>
          \A i \in 1..Len(cmds) : ~cmds[i].force

\* the user declined the force confirmation and the handler went on
C5_Witness ==
    /\ LocalPhaseOver
    /\ \E i \in Asked("force") : ~prompts[i].answer
    /\ FailedIn(FirstPassCmds) # <<>>

\* ---------------------------------------------------------------------
\* C6
\* ---------------------------------------------------------------------
\* the last delete command issued for the local name n failed
LastAttemptFailed(n) ==
    \E i \in 1..Len(LocalCmds) :
        /\ LocalCmds[i].name = n
        /\ ~LocalCmds[i].ok
        /\ \A j \in (i + 1)..Len(LocalCmds) : LocalCmds[j].name # n

\* safe delete of featA fails, featB succeeds, the retry is accepted and the
\* forced delete of featA succeeds
ScenarioD ==
    /\ branches = <<featA, featB>>
    /\ LocalCmds = << LocalCmd(featA, FALSE, FALSE, 1), LocalCmd(featB, FALSE, TRUE, 1),
                      LocalCmd(featA, TRUE, TRUE, 2) >>

\* C6: the failed-local names of the summary are exactly the names whose last
\* delete attempt failed, each once; in scenario D nothing is reported and
\* (in executeCleanup) both names are in the deleted list.
C6_ReportedFailedLocal ==
    (Reported /\ op \in LocalOps) =>
        /\ Range(warning.local) = {n \in Range(branches) : LastAttemptFailed(n)}
        /\ Len(warning.local) = Cardinality(Range(warning.local))
        /\ (ScenarioD /\ failedRemote = <<>>) => ~warning.shown
        /\ (ScenarioD /\ op = "executeCleanup") => deletedBranches = <<featB, featA>>

\* scenario D has been reported
C6_Witness ==
    /\ Reported
    /\ op = "executeCleanup"
    /\ ScenarioD
    /\ ~warning.shown

\* ---------------------------------------------------------------------
\* C7
\* ---------------------------------------------------------------------
CascadeCmds == SelectSeq(cmds, LAMBDA c : c.kind \in {"tracked", "untracked"})
TrackedCmds == SelectSeq(cmds, LAMBDA c : c.kind = "tracked")
UntrackedCmds == SelectSeq(cmds, LAMBDA c : c.kind = "untracked")

\* C7 as claimed: every remote deletion of the cascade that failed, tracked or
\* untracked, is in the failure summary.
C7_EveryFailedRemoteReported ==
    (Reported /\ op = "executeCleanup") =>
        \A i \in 1..Len(CascadeCmds) :
            ~CascadeCmds[i].ok =>
                Full(CascadeCmds[i].remote, CascadeCmds[i].name) \in Range(warning.remote)

\* C7 amended: the remote part of the failure summary is exactly the failed
\* deletions of tracked upstreams, in order; a failed deletion of an untracked
\* same-named remote branch is not reported.
C7_OnlyTrackedFailuresReported ==
    (Reported /\ op = "executeCleanup") =>
        /\ warning.remote = FullOf(FailedIn(TrackedCmds))
        /\ warning.shown <=> (warning.local # <<>> \/ FailedIn(TrackedCmds) # <<>>)

\* a batch in which a tracked and an untracked remote deletion failed
C7_Witness ==
    /\ Reported
    /\ op = "executeCleanup"
    /\ FailedIn(TrackedCmds) # <<>>
    /\ FailedIn(UntrackedCmds) # <<>>

\* ---------------------------------------------------------------------
\* C8
\* ---------------------------------------------------------------------
\* C8: the untracked-name confirmation is requested only when a deleted
\* branch found without upstream has a same-named branch existing on origin,
\* at most once per batch, and before any untracked remote delete.
C8_UntrackedPromptOnlyForExistingRemote ==
    /\ pc = "confirmUntracked" =>
          \E i \in 1..Len(untrackedRemotes) : untrackedRemotes[i].full \in remotes
    /\ Requested("untracked", "confirmUntracked") <= 1
    /\ UntrackedCmds # <<>> => \E i \in Asked("untracked") : prompts[i].answer

\* ---------------------------------------------------------------------
\* C9
\* ---------------------------------------------------------------------
UntrackedDeclined == \E i \in Asked("untracked") : ~prompts[i].answer

\* C9: once the untracked-name confirmation is declined, no remote delete is
\* issued for an untracked name, the deleted branches are not among the
\* reported local failures, and a batch without a failed local or tracked
\* delete shows no failure summary.
C9_DeclinedUntracked ==
    UntrackedDeclined =>
        /\ UntrackedCmds = <<>>
        /\ pc \notin {"untrackedLoop", "confirmUntracked"}
        /\ Reported =>
              /\ Range(warning.local) \cap Range(deletedBranches) = {}
              /\ (FailedIn(LocalCmds) = <<>> /\ FailedIn(TrackedCmds) = <<>>) =>
                    ~warning.shown

\* the cascade was declined after a clean local deletion
C9_Witness ==
    /\ UntrackedDeclined
    /\ Reported
    /\ Len(deletedBranches) = Len(branches)
    /\ ~warning.shown

\* ---------------------------------------------------------------------
\* C10
\* ---------------------------------------------------------------------
RECURSIVE unprotectedRemotes(_)
unprotectedRemotes(fulls) ==
    IF fulls = <<>> THEN <<>>
    ELSE IF isProtectedBranch(localNameOf(Head(fulls)), protectedBranches)
         THEN unprotectedRemotes(Tail(fulls))
         ELSE <<Head(fulls)>> \o unprotectedRemotes(Tail(fulls))

SelectedCmds == SelectSeq(cmds, LAMBDA c : c.kind = "selected")

rel1 == <<"r", "e", "l", "/", "1">>
featC == <<"f", "c">>

\* the rows whose buttons are pressed
SingleNames == {featA, main, rel1}
CheckoutRows == {featA, Full(origin, featA), Full(origin, featB)}
\* what the user types into the input box; an empty input is a cancelled box
NewNames == {<<>>, featA, featC}

\* refs/heads of the repository the panel is opened on: fa may not exist
SingleLocals(withA) ==
    [n \in (IF withA THEN {featA} ELSE {}) \cup {featB, main, rel1} |->
        [upstream |-> IF n = featB THEN NoUpstream ELSE Full(origin, n)]]

SingleInit ==
    /\ cfg \in [confirmBeforeDelete : BOOLEAN, forceDeleteLocal : BOOLEAN]
    /\ locals \in {SingleLocals(TRUE), SingleLocals(FALSE)}
    /\ current \in {main, featB}
    /\ remotes \in {RemoteNames, RemoteNames \ {Full(origin, featB)}}
    /\ pc = "idle"
    /\ op = "none"
    /\ branches = <<>>
    /\ remoteBranches = <<>>
    /\ includeRemote = FALSE
    /\ idx = 1
    /\ failedLocal = <<>>
    /\ stillFailed = <<>>
    /\ deletedBranches = <<>>
    /\ failedRemote = <<>>
    /\ trackedRemotes = <<>>
    /\ untrackedRemotes = <<>>
    /\ cmds = <<>>
    /\ prompts = <<>>
    /\ warning = NoWarning
    /\ refreshes = <<>>
    /\ upstreamsAtStart = [n \in {} |-> NoUpstream]
    /\ nCheckouts = 0
    /\ msg = NoMsg
    /\ input = None
    /\ output = None

\* what the single-branch handlers leave alone
bulkVars == <<cfg, remotes, msgVars, loopVars, warning, nCheckouts, input, output>>

\* a git command of a single-branch handler, as handed to runGit
GitCmd(verb, name, arg, ok) == [verb |-> verb, name |-> name, arg |-> arg, ok |-> ok]

\* the message arrives: the handler starts at its first await
ReceiveSingle(type, name, first) ==
    /\ pc = "idle"
    /\ msg = NoMsg
    /\ msg' = [type |-> type, name |-> name, newName |-> <<>>]
    /\ upstreamsAtStart' = [n \in DOMAIN locals |-> locals[n].upstream]
    /\ pc' = first
    /\ UNCHANGED <<bulkVars, locals, current, cmds, prompts, refreshes>>

\* a guard that knows the literal patterns only
refusesProtected_ExactOnly(name) == \E i \in 1..Len(protectedBranches) : name = protectedBranches[i]

\* if (isProtectedBranch(name, cfg.protected)) { showWarningMessage(..); break; }
refusesProtected(name) == isProtectedBranch(name, protectedBranches)

\* ---------------------------------------------------------------------
\* case 'rename'
\* ---------------------------------------------------------------------
RenameMsg ==
    \E oldName \in SingleNames : ReceiveSingle("rename", oldName, "inputBox")

\* the input box is answered: if (!newName || newName === msg.oldName) break;
\* then the protected check
RenameInput ==
    /\ pc = "inputBox"
    /\ \E newName \in NewNames :
          /\ msg' = [msg EXCEPT !.newName = newName]
          /\ pc' = IF newName = <<>> \/ newName = msg.name THEN "done"
                   ELSE IF refusesProtected(msg.name) THEN "done"
                   ELSE "renameBranch"
    /\ UNCHANGED <<bulkVars, locals, current, cmds, prompts, refreshes, upstreamsAtStart>>

\* git branch -m oldName newName can succeed only for an existing branch and
\* a free new name
renameBranchOutcomes(oldName, newName) ==
    IF oldName \in DOMAIN locals /\ newName \notin DOMAIN locals
    THEN {TRUE, FALSE} ELSE {FALSE}

\* refs/heads after the rename
renamed(oldName, newName) ==
    [n \in (DOMAIN locals \ {oldName}) \cup {newName} |->
        IF n = newName THEN locals[oldName] ELSE locals[n]]

\* await renameBranch(..): a failure ends the handler in the outer catch
RenameBranch ==
    /\ pc = "renameBranch"
    /\ \E ok \in renameBranchOutcomes(msg.name, msg.newName) :
          /\ cmds' = Append(cmds, GitCmd("branch -m", msg.name, msg.newName, ok))
          /\ locals' = IF ok THEN renamed(msg.name, msg.newName) ELSE locals
          /\ current' = IF ok /\ current = msg.name THEN msg.newName ELSE current
          /\ pc' = IF ok THEN "refreshSingle" ELSE "done"
    /\ UNCHANGED <<bulkVars, msg, prompts, refreshes, upstreamsAtStart>>

\* ---------------------------------------------------------------------
\* case 'deleteLocal'
\* ---------------------------------------------------------------------
\* the protected check, then
\* proceed = !cfg.confirmBeforeDelete || await confirm(..)
DeleteLocalMsg ==
    \E name \in SingleNames :
        ReceiveSingle("deleteLocal", name,
            IF refusesProtected(name) THEN "done"
            ELSE IF cfg.confirmBeforeDelete THEN "confirmDeleteLocal"
            ELSE "deleteLocalBranch")

ConfirmDeleteLocal ==
    /\ pc = "confirmDeleteLocal"
    /\ \E answer \in BOOLEAN :
          /\ prompts' = confirm("deleteLocal", answer)
          /\ pc' = IF answer THEN "deleteLocalBranch" ELSE "done"
    /\ UNCHANGED <<bulkVars, msg, locals, current, cmds, refreshes, upstreamsAtStart>>

\* await deleteLocalBranch(repo.repoRoot, msg.name, cfg.forceDeleteLocal)
DeleteLocalBranch ==
    /\ pc = "deleteLocalBranch"
    /\ \E ok \in deleteLocalBranchOutcomes(msg.name, cfg.forceDeleteLocal) :
          /\ cmds' = Append(cmds,
                GitCmd(IF cfg.forceDeleteLocal THEN "branch -D" ELSE "branch -d",
                       msg.name, <<>>, ok))
          /\ locals' = deleteLocalBranch(msg.name, ok)
          /\ pc' = IF ok THEN "refreshSingle" ELSE "done"
    /\ UNCHANGED <<bulkVars, msg, current, prompts, refreshes, upstreamsAtStart>>

\* ---------------------------------------------------------------------
\* case 'mergeIntoCurrent'
\* ---------------------------------------------------------------------
\* the handler starts with  await getCurrentBranch(..)
MergeMsg ==
    \E source \in SingleNames : ReceiveSingle("mergeIntoCurrent", source, "getCurrentBranch")

\* getCurrentBranch: undefined on a detached HEAD
getCurrentBranch == IF current = Detached THEN None ELSE current

\* if (current && msg.source === current) break; then the protected check
MergeGetCurrent ==
    /\ pc = "getCurrentBranch"
    /\ pc' = IF getCurrentBranch # None /\ msg.name = getCurrentBranch THEN "done"
             ELSE IF refusesProtected(msg.name) THEN "done"
             ELSE "confirmMerge"
    /\ UNCHANGED <<bulkVars, msg, locals, current, cmds, prompts, refreshes,
                   upstreamsAtStart>>

\* const proceed = await confirm('Merge {0} into the current branch?')
ConfirmMerge ==
    /\ pc = "confirmMerge"
    /\ \E answer \in BOOLEAN :
          /\ prompts' = confirm("merge", answer)
          /\ pc' = IF answer THEN "mergeIntoCurrent" ELSE "done"
    /\ UNCHANGED <<bulkVars, msg, locals, current, cmds, refreshes, upstreamsAtStart>>

\* await mergeIntoCurrent(..): git merge source moves no branch name
MergeIntoCurrent ==
    /\ pc = "mergeIntoCurrent"
    /\ \E ok \in (IF msg.name \in DOMAIN locals THEN {TRUE, FALSE} ELSE {FALSE}) :
          /\ cmds' = Append(cmds, GitCmd("merge", msg.name, <<>>, ok))
          /\ pc' = IF ok THEN "refreshSingle" ELSE "done"
    /\ UNCHANGED <<bulkVars, msg, locals, current, prompts, refreshes, upstreamsAtStart>>

\* ---------------------------------------------------------------------
\* case 'checkout': checkoutBranch step by step
\* ---------------------------------------------------------------------
CheckoutMsg ==
    \E name \in CheckoutRows : ReceiveSingle("checkout", name, "showRefHeads")

\* try { show-ref --verify refs/heads/<name>; .. } catch { continue }
ShowRefHeads ==
    /\ pc = "showRefHeads"
    /\ pc' = IF msg.name \in DOMAIN locals THEN "checkoutLocal" ELSE "showRefRemotes"
    /\ UNCHANGED <<bulkVars, msg, locals, current, cmds, prompts, refreshes,
                   upstreamsAtStart>>

\* git checkout <name> of the existing local branch; a failure would be
\* caught and the function would go on with the remote ref
CheckoutLocal ==
    /\ pc = "checkoutLocal"
    /\ \E ok \in {msg.name \in DOMAIN locals} :
          /\ cmds' = Append(cmds, GitCmd("checkout", msg.name, <<>>, ok))
          /\ current' = IF ok THEN msg.name ELSE current
          /\ pc' = IF ok THEN "refreshSingle" ELSE "showRefRemotes"
    /\ UNCHANGED <<bulkVars, msg, locals, prompts, refreshes, upstreamsAtStart>>

\* try { show-ref --verify refs/remotes/<name>; .. } catch { continue }
ShowRefRemotes ==
    /\ pc = "showRefRemotes"
    /\ pc' = IF msg.name \in remotes THEN "checkoutTrack" ELSE "checkoutPlain"
    /\ UNCHANGED <<bulkVars, msg, locals, current, cmds, prompts, refreshes,
                   upstreamsAtStart>>

\* git checkout -b <localName> --track <name> can succeed only when no branch
\* localName exists
checkoutTrackOutcomes(localName) == {localName \notin DOMAIN locals}

\* return after the checkout -b; its failure is caught and the function goes
\* on with the plain checkout
afterCheckoutTrack(ok) == IF ok THEN "refreshSingle" ELSE "checkoutPlain"

CheckoutTrack ==
    /\ pc = "checkoutTrack"
    /\ LET localName == localNameOf(msg.name)
       IN \E ok \in checkoutTrackOutcomes(localName) :
             /\ cmds' = Append(cmds, GitCmd("checkout -b", localName, msg.name, ok))
             /\ locals' = IF ok THEN withTracking(localName, msg.name) ELSE locals
             /\ current' = IF ok THEN localName ELSE current
             /\ pc' = afterCheckoutTrack(ok)
    /\ UNCHANGED <<bulkVars, msg, prompts, refreshes, upstreamsAtStart>>

\* where git checkout <name> leaves HEAD when it succeeds: on the local
\* branch, detached at the remote ref, or on a new branch made from
\* origin/<name>; None when git has nothing to check out
plainCheckoutTarget(name) ==
    IF name \in DOMAIN locals THEN name
    ELSE IF name \in remotes THEN Detached
    ELSE IF Full(origin, name) \in remotes THEN name
    ELSE None

\* await runGit(cwd, ['checkout', name]): a failure ends the handler in the
\* outer catch
CheckoutPlain ==
    /\ pc = "checkoutPlain"
    /\ LET target == plainCheckoutTarget(msg.name)
       IN \E ok \in {target # None} :
             /\ cmds' = Append(cmds, GitCmd("checkout", msg.name, <<>>, ok))
             /\ locals' = IF ok /\ target = msg.name /\ msg.name \notin DOMAIN locals
                          THEN withTracking(msg.name, Full(origin, msg.name))
                          ELSE locals
             /\ current' = IF ok THEN target ELSE current
             /\ pc' = IF ok THEN "refreshSingle" ELSE "done"
    /\ UNCHANGED <<bulkVars, msg, prompts, refreshes, upstreamsAtStart>>

\* await refresh(); break
RefreshSingle ==
    /\ pc = "refreshSingle"
    /\ refreshes' = Append(refreshes, msg.type)
    /\ pc' = "done"
    /\ UNCHANGED <<bulkVars, msg, locals, current, cmds, prompts, upstreamsAtStart>>

SingleNext ==
    \/ RenameMsg
    \/ RenameInput
    \/ RenameBranch
    \/ DeleteLocalMsg
    \/ ConfirmDeleteLocal
    \/ DeleteLocalBranch
    \/ MergeMsg
    \/ MergeGetCurrent
    \/ ConfirmMerge
    \/ MergeIntoCurrent
    \/ CheckoutMsg
    \/ ShowRefHeads
    \/ CheckoutLocal
    \/ ShowRefRemotes
    \/ CheckoutTrack
    \/ CheckoutPlain
    \/ RefreshSingle

SingleSpec == SingleInit /\ [][SingleNext]_vars

\* ---------------------------------------------------------------------
\* C11
\* ---------------------------------------------------------------------
MutatingVerbs == {"branch -m", "branch -d", "branch -D", "merge"}

\* C11: while rename, deleteLocal or mergeIntoCurrent is handled for a branch
\* whose name matches a protected pattern, no branch -m, branch -d/-D or
\* merge command is issued, whatever was typed or answered.
C11_NoMutationOfProtected ==
    (/\ msg # NoMsg
     /\ msg.type \in {"rename", "deleteLocal", "mergeIntoCurrent"}
     /\ isProtectedBranch(msg.name, protectedBranches)) =>
        \A i \in 1..Len(cmds) : cmds[i].verb \notin MutatingVerbs

\* the rename of rel/1, protected by the prefix pattern, to a new name was
\* refused after the input box
C11_Witness ==
    /\ msg # NoMsg
    /\ msg.type = "rename"
    /\ msg.name = rel1
    /\ msg.newName = featC
    /\ pc = "done"

\* ---------------------------------------------------------------------
\* C12
\* ---------------------------------------------------------------------
\* the checkout of a remote branch was handled without an error
RemoteCheckoutDone ==
    /\ msg # NoMsg
    /\ msg.type = "checkout"
    /\ msg.name \in remotes
    /\ msg.name \notin DOMAIN upstreamsAtStart
    /\ Len(refreshes) = 1

\* C12: once the checkout of a remote branch R/X was handled without an
\* error, HEAD is on the local branch X, and X tracks R/X when the checkout
\* created it; HEAD is not detached at R/X.
C12_RemoteCheckoutEndsOnLocalBranch ==
    RemoteCheckoutDone =>
        LET X == localNameOf(msg.name)
        IN /\ current = X
           /\ X \in DOMAIN locals
           /\ X \notin DOMAIN upstreamsAtStart => locals[X].upstream = msg.name

\* =====================================================================
\* The queries and pure helpers of app.ts, each called once on arguments
\* and git output drawn from a bounded set
\* =====================================================================
\* longest branch name handed to isProtectedBranch
MaxNameLen == 3
\* longest protected-pattern list
MaxPatterns == 2

\* the strings of at most n characters of S
RECURSIVE StringsOf(_, _)
StringsOf(S, n) ==
    IF n = 0 THEN {<<>>}
    ELSE LET shorter == StringsOf(S, n - 1)
         IN shorter \cup {Append(s, c) : <<s, c>> \in shorter \X S}

\* a call of a query: its arguments are there, its result is not
QueryInit(inputs) ==
    /\ input \in inputs
    /\ output = None
    /\ pc = "call"
    /\ msg = NoMsg
    /\ cfg = [confirmBeforeDelete |-> TRUE, forceDeleteLocal |-> FALSE]
    /\ locals = [n \in {} |-> [upstream |-> NoUpstream]]
    /\ current = main
    /\ remotes = {}
    /\ op = "none"
    /\ branches = <<>>
    /\ remoteBranches = <<>>
    /\ includeRemote = FALSE
    /\ idx = 1
    /\ failedLocal = <<>>
    /\ stillFailed = <<>>
    /\ deletedBranches = <<>>
    /\ failedRemote = <<>>
    /\ trackedRemotes = <<>>
    /\ untrackedRemotes = <<>>
    /\ cmds = <<>>
    /\ prompts = <<>>
    /\ warning = NoWarning
    /\ refreshes = <<>>
    /\ upstreamsAtStart = [n \in {} |-> NoUpstream]
    /\ nCheckouts = 0

\* the query returns
QueryReturn(result) ==
    /\ pc = "call"
    /\ output' = result
    /\ pc' = "done"
    /\ UNCHANGED <<cfg, repoVars, msgVars, loopVars, logVars, nCheckouts, msg, input>>

\* ---------------------------------------------------------------------
\* isProtectedBranch(name, protectedList)
\* ---------------------------------------------------------------------
release == <<"r", "e", "l", "e", "a", "s", "e">>
releaseStar == release \o <<SLASH, STAR>>
release10 == release \o <<SLASH, "1", ".", "0">>

\* Scenario A: the names 'release' and 'release/1.0' under ['release/*']
ScenarioA == {[name |-> n, list |-> <<releaseStar>>] : n \in {release, release10}}

\* patterns of the three kinds: literal (with a metacharacter, in either
\* case, empty), ending in '*', with a '*' elsewhere
Patterns ==
    {<<>>, <<"a">>, <<"A", "a">>, <<".">>,
     <<"a", STAR>>, <<STAR>>,
     <<"a", STAR, "a">>, <<STAR, ".", "a">>}

ProtectInputs ==
    [name : StringsOf({"a", "A", "."}, MaxNameLen), list : ListsOf(Patterns, MaxPatterns)]
        \cup ScenarioA

ProtectCall == QueryReturn(isProtectedBranch(input.name, input.list))

ProtectSpec == QueryInit(ProtectInputs) /\ [][ProtectCall]_vars

\* ---------------------------------------------------------------------
\* C18
\* ---------------------------------------------------------------------
\* the name n matches the glob p, every character but '*' standing for itself
RECURSIVE GlobMatches(_, _)
GlobMatches(n, p) ==
    IF p = <<>> THEN n = <<>>
    ELSE IF Head(p) = STAR
    THEN GlobMatches(n, Tail(p)) \/ (n # <<>> /\ GlobMatches(Tail(n), p))
    ELSE n # <<>> /\ Head(n) = Head(p) /\ GlobMatches(Tail(n), Tail(p))

\* the pattern p matches the name n by the rule of its kind
PatternMatches(n, p) ==
    IF p # <<>> /\ p[Len(p)] = STAR THEN startsWith(n, SubSeq(p, 1, Len(p) - 1))
    ELSE IF includes(p, STAR) THEN GlobMatches(n, p)
    ELSE n = p

\* C18: isProtectedBranch(n, P) is true exactly when some pattern of P
\* matches n by its rule (prefix for a trailing '*', anchored glob with
\* literal metacharacters for another '*', exact case-sensitive equality
\* otherwise); an empty list protects nothing.
C18_ProtectedIffSomePatternMatches ==
    pc = "done" =>
        /\ output = (\E i \in 1..Len(input.list) : PatternMatches(input.name, input.list[i]))
        /\ input.list = <<>> => output = FALSE

\* the second pattern of the list, a glob with an escaped '.', decided
C18_Witness ==
    /\ pc = "done"
    /\ input.list = << <<"A", "a">>, <<STAR, ".", "a">> >>
    /\ input.name = <<"a", ".", "a">>
    /\ output = TRUE

\* ---------------------------------------------------------------------
\* C19
\* ---------------------------------------------------------------------
\* C19 as stated: with ['release/*'] both 'release' and 'release/1.0' are
\* protected.
C19_ReleaseIsProtected ==
    (pc = "done" /\ input \in ScenarioA) => output = TRUE

\* C19: with ['release/*'] the name 'release/1.0' is protected and the name
\* 'release', which does not start with 'release/', is not.
C19_ReleaseSlashOnly ==
    (pc = "done" /\ input \in ScenarioA) => output = (input.name = release10)

\* Scenario A was decided for the name 'release'
C19_Witness ==
    /\ pc = "done"
    /\ input = [name |-> release, list |-> <<releaseStar>>]

\* ---------------------------------------------------------------------
\* parseTrackShort(track)
\* ---------------------------------------------------------------------
\* longest tracking token handed to parseTrackShort
MaxTokenLen == 4

Digits == <<"0", "1", "2", "3", "4", "5", "6", "7", "8", "9">>
isDigit(c) == \E k \in 1..Len(Digits) : Digits[k] = c

\* Number(digits), digits a non-empty run of decimal digits
RECURSIVE Number(_)
Number(ds) ==
    IF ds = <<>> THEN 0
    ELSE 10 * Number(SubSeq(ds, 1, Len(ds) - 1))
         + ((CHOOSE k \in 1..Len(Digits) : Digits[k] = ds[Len(ds)]) - 1)

\* track.trim()
RECURSIVE trim(_)
trim(s) ==
    IF s # <<>> /\ Head(s) \in {" ", "\t", "\n"} THEN trim(Tail(s))
    ELSE IF s # <<>> /\ s[Len(s)] \in {" ", "\t", "\n"} THEN trim(SubSeq(s, 1, Len(s) - 1))
    ELSE s

\* the digits the longest run after position i of t holds
RECURSIVE digitRun(_, _)
digitRun(t, i) ==
    IF i <= Len(t) /\ isDigit(t[i]) THEN <<t[i]>> \o digitRun(t, i + 1) ELSE <<>>

\* a match that wants the sign at the start of the token or after a blank
firstRun_AtWordStart(t, sign) ==
    LET at == {i \in 1..Len(t) : /\ t[i] = sign
                                 /\ digitRun(t, i + 1) # <<>>
                                 /\ (i = 1 \/ t[i - 1] = " ")}
    IN IF at = {} THEN <<>>
       ELSE digitRun(t, (CHOOSE i \in at : \A j \in at : i <= j) + 1)

\* t.match(/\+(\d+)/)[1], t.match(/-(\d+)/)[1]: the group of the leftmost
\* match, <<>> when there is no match
firstRun(t, sign) ==
    LET at == {i \in 1..Len(t) : t[i] = sign /\ digitRun(t, i + 1) # <<>>}
    IN IF at = {} THEN <<>>
       ELSE digitRun(t, (CHOOSE i \in at : \A j \in at : i <= j) + 1)

\* the result object: a function of the properties that are set
parseTrackShort(track) ==
    IF track = None \/ track = <<>> THEN [k \in {} |-> 0]
    ELSE LET t == trim(track)
             group == [k \in {"ahead", "behind"} |->
                          firstRun(t, IF k = "ahead" THEN "+" ELSE "-")]
         IN IF t = <<>> \/ t = <<"<", ">">> THEN [k \in {} |-> 0]
            ELSE [k \in {k \in DOMAIN group : group[k] # <<>>} |-> Number(group[k])]

\* the tokens of the tests, and every short token
TrackInputs ==
    StringsOf({"+", "-", "0", "1", "<", ">", " "}, MaxTokenLen)
        \cup {None,
              <<"+", "1", " ", "-", "2">>, <<"+", "0", " ", "-", "0">>,
              <<"+", "9", "9", "9">>, <<"-", "9", "9", "9">>}

TrackCall == QueryReturn(parseTrackShort(input))

TrackSpec == QueryInit(TrackInputs) /\ [][TrackCall]_vars

\* ---------------------------------------------------------------------
\* C20
\* ---------------------------------------------------------------------
\* the token t holds the sign followed by the digits of n, and no such run
\* starts further left
LeftmostRunIs(t, sign, n) ==
    \E i \in 1..Len(t), j \in 1..Len(t) :
        /\ i < j
        /\ t[i] = sign
        /\ \A k \in (i + 1)..j : isDigit(t[k])
        /\ j = Len(t) \/ ~isDigit(t[j + 1])
        /\ Number(SubSeq(t, i + 1, j)) = n
        /\ \A h \in 1..(i - 1) : ~(t[h] = sign /\ isDigit(t[h + 1]))

HasRun(t, sign) == \E i \in 1..(Len(t) - 1) : t[i] = sign /\ isDigit(t[i + 1])

\* C20: parseTrackShort returns the empty result for an absent, empty or
\* '<>' token; for any other token ahead is set exactly when the token holds
\* a '+' followed by digits, to the number of the leftmost such run, and
\* behind likewise for '-', each whatever the other is; '+0' and '-0' set 0.
C20_ParseTrackShort ==
    pc = "done" =>
        IF input \in {None, <<>>, <<"<", ">">>} THEN DOMAIN output = {}
        ELSE /\ DOMAIN output \subseteq {"ahead", "behind"}
             /\ ("ahead" \in DOMAIN output) = HasRun(input, "+")
             /\ ("behind" \in DOMAIN output) = HasRun(input, "-")
             /\ "ahead" \in DOMAIN output => LeftmostRunIs(input, "+", output["ahead"])
             /\ "behind" \in DOMAIN output => LeftmostRunIs(input, "-", output["behind"])

\* a token without blank between the two runs, the first one being 0
C20_Witness ==
    /\ pc = "done"
    /\ input = <<"+", "0", "-", "1">>
    /\ output = [k \in {"ahead", "behind"} |-> IF k = "ahead" THEN 0 ELSE 1]

\* ---------------------------------------------------------------------
\* detectDeadBranches(cwd, base)
\* ---------------------------------------------------------------------
\* most lines of a git output
MaxLines == 2

NL == "\n"

\* stdout of git: every line ends with a line feed
stdoutOf(lines) == IF lines = <<>> THEN <<>> ELSE join(lines, <<NL>>) \o <<NL>>

\* stdout.split(/\r?\n/)
linesOf(stdout) == split(stdout, NL)

\* l.replace(/^\*\s+/, ''): a '*' and the blanks after it, if there is one
stripMarker(l) ==
    IF Len(l) >= 2 /\ l[1] = STAR /\ l[2] = " "
    THEN LET rest == Tail(l)
             k == CHOOSE i \in 1..(Len(rest) + 1) :
                      /\ \A j \in 1..(i - 1) : rest[j] = " "
                      /\ i = Len(rest) + 1 \/ rest[i] # " "
         IN slice(rest, k)
    ELSE l

noBranch == <<"(", "n", "o", " ", "b", "r", "a", "n", "c", "h", ")">>
detachedAt == <<"(", "H", "E", "A", "D", " ", "d", "e", "t", "a", "c", "h", "e", "d",
                " ", "a", "t", " ", "c", "1", ")">>

\* n.replace(/^\(no branch\)$/, '')
blankPlaceholder(n) == IF n = noBranch THEN <<>> ELSE n

\* a filter that forgets the current branch
keepsDead_CurrentToo(n, cur, protectedList) ==
    n # <<>> /\ ~isProtectedBranch(n, protectedList)

\* !!n && n !== current && !isProtectedBranch(n, cfg.protected)
keepsDead(n, cur, protectedList) ==
    n # <<>> /\ n # cur /\ ~isProtectedBranch(n, protectedList)

\* the names returned, given the output of git branch --merged <base>, the
\* result of getCurrentBranch and cfg.protected
detectDeadBranches(stdout, cur, protectedList) ==
    LET ls == linesOf(stdout)
        lines == SelectSeq([i \in 1..Len(ls) |-> trim(ls[i])], LAMBDA l : l # <<>>)
        names == [i \in 1..Len(lines) |-> blankPlaceholder(stripMarker(lines[i]))]
    IN SelectSeq(names, LAMBDA n : keepsDead(n, cur, protectedList))

\* a line of git branch --merged: the mark of the checked-out branch or a
\* blank, a blank, the name
mergedLine(mark, n) == <<mark, " ">> \o n

\* Scenario C: main, * feature/done, bugfix-123, develop
ScenarioC ==
    LET featureDone == <<"f", "e", "a", "t", "u", "r", "e", "/", "d", "o", "n", "e">>
        bugfix123 == <<"b", "u", "g", "f", "i", "x", "-", "1", "2", "3">>
        develop == <<"d", "e", "v", "e", "l", "o", "p">>
    IN [lines |-> <<mergedLine(" ", main), mergedLine(STAR, featureDone),
                    mergedLine(" ", bugfix123), mergedLine(" ", develop)>>,
        current |-> featureDone,
        protected |-> <<main, develop>>]

\* the lines git can print for the branches main, fa, rel/1 and for a
\* detached HEAD
MergedLines ==
    {mergedLine(" ", n) : n \in {main, featA, rel1}}
        \cup {mergedLine(STAR, n) : n \in {main, featA, rel1, noBranch, detachedAt}}

DeadInputs ==
    [lines : ListsOf(MergedLines, MaxLines),
     current : {None, main, featA},
     protected : {<<>>, protectedBranches}] \cup {ScenarioC}

DeadCall ==
    QueryReturn(detectDeadBranches(stdoutOf(input.lines), input.current, input.protected))

DeadSpec == QueryInit(DeadInputs) /\ [][DeadCall]_vars

\* ---------------------------------------------------------------------
\* C13
\* ---------------------------------------------------------------------
\* the name a line of the merged query lists: the line without the blanks
\* around it and without the current-branch marker; none for the blank-ref
\* placeholder
ListedName(line) ==
    LET t == trim(line)
        n == IF startsWith(t, <<STAR, " ">>) THEN trim(slice(t, 3)) ELSE t
    IN IF n = noBranch THEN <<>> ELSE n

\* C13: detectDeadBranches returns exactly the names the merged query lists,
\* minus the current branch, minus every protected name, minus the empty
\* names; Scenario C yields exactly bugfix-123.
C13_DeadIsListedMinusExcluded ==
    pc = "done" =>
        /\ Range(output) =
              {n \in {ListedName(input.lines[i]) : i \in 1..Len(input.lines)} :
                  /\ n # <<>>
                  /\ n # input.current
                  /\ ~isProtectedBranch(n, input.protected)}
        /\ input = ScenarioC => output = <<slice(ScenarioC.lines[3], 3)>>

\* the current branch, listed with its marker next to another merged branch,
\* was left out
C13_Witness ==
    /\ pc = "done"
    /\ input.lines = <<mergedLine(STAR, featA), mergedLine(" ", rel1)>>
    /\ input.current = featA
    /\ input.protected = <<>>
    /\ output = <<rel1>>

\* ---------------------------------------------------------------------
\* detectGoneBranches(cwd)
\* ---------------------------------------------------------------------
\* s without the blanks it starts with (\s*)
RECURSIVE dropBlanks(_)
dropBlanks(s) == IF s # <<>> /\ Head(s) = " " THEN dropBlanks(Tail(s)) ELSE s

\* the longest run of non-blank characters s starts with (\S+, when not empty)
RECURSIVE word(_)
word(s) == IF s # <<>> /\ Head(s) # " " THEN <<Head(s)>> \o word(Tail(s)) ELSE <<>>

\* line.match(/^\*?\s+(\S+)\s+\S+\s+\[[^\]]+:\s*gone\]/): the group of the
\* match, <<>> when the line does not match
goneMatch(line) ==
    LET a == IF line # <<>> /\ Head(line) = STAR THEN Tail(line) ELSE line
        r1 == dropBlanks(a)
        name == word(r1)
        a2 == slice(r1, Len(name) + 1)
        r2 == dropBlanks(a2)
        sha == word(r2)
        a3 == slice(r2, Len(sha) + 1)
        r3 == dropBlanks(a3)
        close == CHOOSE i \in 1..Len(r3) : r3[i] = "]" /\ \A j \in 1..(i - 1) : r3[j] # "]"
        inner == SubSeq(r3, 2, close - 1)
    IN IF /\ r1 # a /\ name # <<>>
          /\ r2 # a2 /\ sha # <<>>
          /\ r3 # a3 /\ r3 # <<>> /\ Head(r3) = "[" /\ includes(r3, "]")
          /\ \E c \in 2..Len(inner) :
                /\ inner[c] = ":"
                /\ dropBlanks(slice(inner, c + 1)) = <<"g", "o", "n", "e">>
       THEN name ELSE <<>>

\* the names returned, given the output of git branch -vv, the result of
\* getCurrentBranch and cfg.protected
detectGoneBranches(stdout, cur, protectedList) ==
    LET lines == SelectSeq(linesOf(stdout), LAMBDA l : l # <<>>)
        matched == SelectSeq(lines, LAMBDA l : goneMatch(l) # <<>>)
        names == [i \in 1..Len(matched) |-> goneMatch(matched[i])]
    IN SelectSeq(names, LAMBDA n : n # cur /\ ~isProtectedBranch(n, protectedList))

\* the line git branch -vv prints for a branch: mark of the current branch,
\* name, commit, the
\* upstream in brackets with its state when there is an upstream, subject
verboseLine(b, cur) ==
    <<IF b.name = cur THEN STAR ELSE " ", " ">> \o b.name \o <<" ", " ", "c", "1", " ">>
        \o (IF b.track = "none" THEN <<>>
            ELSE <<"[">> \o Full(<<"o">>, b.name)
                 \o (IF b.track = "gone" THEN <<":", " ", "g", "o", "n", "e">> ELSE <<>>)
                 \o <<"]", " ">>)
        \o b.subject

\* listings of distinct branches, with any upstream state and a commit
\* subject that may itself start with a bracket
GoneInputs ==
    [lines : {l \in ListsOf([name : LocalNames,
                              track : {"none", "set", "gone"},
                              subject : {<<"w", "i", "p">>,
                                         <<"[", "x", ":", " ", "g", "o", "n", "e", "]">>}],
                            MaxLines) :
                 \A i, j \in 1..Len(l) : i # j => l[i].name # l[j].name},
     current : {None, featA},
     protected : {<<>>, protectedBranches}]

GoneCall ==
    QueryReturn(detectGoneBranches(
        stdoutOf([i \in 1..Len(input.lines) |-> verboseLine(input.lines[i], input.current)]),
        input.current, input.protected))

GoneSpec == QueryInit(GoneInputs) /\ [][GoneCall]_vars

\* ---------------------------------------------------------------------
\* C15
\* ---------------------------------------------------------------------
\* C15: detectGoneBranches returns a name exactly when the line of that
\* branch carries an upstream marked gone and the branch is neither the
\* current one nor protected; the line of a branch without upstream yields
\* nothing, whatever its commit subject is.
C15_GoneIffUpstreamGone ==
    pc = "done" =>
        Range(output) =
            {b.name : b \in {b \in Range(input.lines) :
                                /\ b.track = "gone"
                                /\ b.name # input.current
                                /\ ~isProtectedBranch(b.name, input.protected)}}

\* ---------------------------------------------------------------------
\* getState(repoRoot): the base branch and the remote branches with status
\* ---------------------------------------------------------------------
TAB == "\t"

refsRemotes == <<"r", "e", "f", "s", "/", "r", "e", "m", "o", "t", "e", "s", "/">>

\* the conventional names resolveBaseBranch tries, in this order
candidates == <<main, <<"m", "a", "s", "t", "e", "r">>, <<"d", "e", "v", "e", "l", "o", "p">>>>

\* resolveBaseBranch without the look at the origin/HEAD pointer
resolveBaseBranch_NoOriginHead(baseBranch, symbolicRef, heads, cur) ==
    IF baseBranch # <<>> /\ baseBranch # <<"a", "u", "t", "o">> THEN baseBranch
    ELSE IF main \in heads THEN main
    ELSE IF cur # None THEN cur
    ELSE main

\* the base branch, given cfg.baseBranch, the output of git symbolic-ref
\* refs/remotes/origin/HEAD (None when the command fails), the names for
\* which git show-ref --verify refs/heads/<name> succeeds and the result of
\* getCurrentBranch
resolveBaseBranch(baseBranch, symbolicRef, heads, cur) ==
    LET t == IF symbolicRef = None THEN <<>> ELSE trim(symbolicRef)
        re == refsRemotes \o origin \o <<SLASH>>
        at == {i \in 1..Len(t) : startsWith(slice(t, i), re) /\ Len(t) >= i + Len(re)}
        m == slice(t, (CHOOSE i \in at : \A j \in at : i <= j) + Len(re))
        found == {k \in 1..Len(candidates) : candidates[k] \in heads}
    IN IF baseBranch # <<>> /\ baseBranch # <<"a", "u", "t", "o">> THEN baseBranch
       ELSE IF at # {} THEN m
       ELSE IF found # {} THEN candidates[CHOOSE k \in found : \A j \in found : k <= j]
       ELSE IF cur # None THEN cur
       ELSE main

\* getCurrentBranch without the test for the detached HEAD
getCurrentBranchFrom_NoHeadTest(revParse) ==
    IF revParse = None THEN None ELSE trim(revParse)

\* getCurrentBranch, given the output of git rev-parse --abbrev-ref HEAD
\* (None when the command fails)
getCurrentBranchFrom(revParse) ==
    IF revParse = None THEN None
    ELSE LET name == trim(revParse)
         IN IF name = Detached THEN None ELSE name

\* the rows of listRemoteBranches, given the output of git for-each-ref
\* --format '%(refname)\t%(refname:short)' refs/remotes and cfg.protected
listRemoteBranches(stdout, protectedList) ==
    LET lines == SelectSeq(linesOf(stdout), LAMBDA l : l # <<>>)
        kept == SelectSeq(lines, LAMBDA l : ~endsWith(split(l, TAB)[1], <<SLASH>> \o Detached))
        row(l) == LET fullRef == split(l, TAB)[1]
                      short == split(l, TAB)[2]
                      name == join(Tail(split(short, SLASH)), <<SLASH>>)
                  IN [fullRef |-> fullRef, short |-> short, kind |-> "remote",
                      protected |-> isProtectedBranch(name, protectedList)]
    IN [i \in 1..Len(kept) |-> row(kept[i])]

\* the map of getBranchLastCommitDates, given the output of git for-each-ref
\* --format '%(refname:short)\t%(committerdate:iso-strict)' and Date.now();
\* a date is written as its number of half days, so that a day is 2
getBranchLastCommitDates(lines, now) ==
    LET dated == SelectSeq(lines, LAMBDA l :
                     /\ Len(split(l, TAB)) >= 2
                     /\ split(l, TAB)[1] # <<>> /\ split(l, TAB)[2] # <<>>)
        last(n) == CHOOSE i \in 1..Len(dated) :
                       /\ split(dated[i], TAB)[1] = n
                       /\ \A j \in (i + 1)..Len(dated) : split(dated[j], TAB)[1] # n
    IN [n \in {split(dated[i], TAB)[1] : i \in 1..Len(dated)} |->
           [date |-> split(dated[last(n)], TAB)[2],
            ageInDays |-> (now - Number(split(dated[last(n)], TAB)[2])) \div 2]]

\* the same for refs/remotes, without the names that end with /HEAD
getRemoteBranchLastCommitDates(stdout, now) ==
    getBranchLastCommitDates(
        SelectSeq(linesOf(stdout), LAMBDA l :
            l # <<>> /\ ~endsWith(split(l, TAB)[1], <<SLASH>> \o Detached)),
        now)

\* the set of detectMergedRemoteBranches, given the output of git branch -r
\* --merged base
detectMergedRemoteBranches(stdout, base) ==
    {name \in {trim(l) : l \in Range(SelectSeq(linesOf(stdout), LAMBDA l : l # <<>>))} :
        name # <<>> /\ ~endsWith(name, <<SLASH>> \o Detached) /\ name # base}

\* isStale = ageInDays > staleDays: a branch of exactly staleDays days is
\* not stale
isStale_OlderOnly(ageInDays, staleDays) == ageInDays > staleDays

\* dateInfo.ageInDays >= staleDays
isStale(ageInDays, staleDays) == ageInDays >= staleDays

\* if (dateInfo) { b.lastCommitDate, b.lastCommitAgeInDays, b.isStale }
withDateInfo(b, datesMap, staleDays) ==
    IF b.short \in DOMAIN datesMap
    THEN [lastCommitDate |-> datesMap[b.short].date,
          lastCommitAgeInDays |-> datesMap[b.short].ageInDays,
          isStale |-> isStale(datesMap[b.short].ageInDays, staleDays)] @@ b
    ELSE b

\* the loop of listRemoteBranchesWithStatus over the three awaited results
listRemoteBranchesWithStatus(rows, mergedSet, datesMap, staleDays) ==
    [i \in 1..Len(rows) |->
        withDateInfo([isMerged |-> rows[i].short \in mergedSet] @@ rows[i],
                     datesMap, staleDays)]

\* the rows of listLocalBranches, given the output of git for-each-ref
\* --format '%(refname)\t%(refname:short)\t%(upstream:short)\t
\* %(upstream:trackshort)\t%(HEAD)' refs/heads and cfg.protected
listLocalBranches(stdout, protectedList) ==
    LET lines == SelectSeq(linesOf(stdout), LAMBDA l : l # <<>>)
        row(l) == LET f == split(l, TAB)
                      ab == parseTrackShort(f[4])
                  IN ab @@ (IF f[5] = <<STAR>> THEN [isCurrent |-> TRUE] ELSE <<>>)
                        @@ (IF f[3] # <<>> THEN [upstream |-> f[3]] ELSE <<>>)
                        @@ [fullRef |-> f[1], short |-> f[2], kind |-> "local",
                            protected |-> isProtectedBranch(f[2], protectedList)]
    IN [i \in 1..Len(lines) |-> row(lines[i])]

\* the loop of listLocalBranchesWithStatus over the four awaited results
listLocalBranchesWithStatus(rows, mergedSet, datesMap, goneSet, staleDays) ==
    [i \in 1..Len(rows) |->
        withDateInfo([isMerged |-> rows[i].short \in mergedSet,
                      isGone |-> rows[i].short \in goneSet] @@ rows[i],
                     datesMap, staleDays)]

MaxStaleDays == 2

\* Date.now(), in half days
Now == 2 * MaxStaleDays + 1

\* the remote-tracking refs of a repository in the order git lists them:
\* what for-each-ref prints for %(refname) and %(refname:short), the commit
\* date, and the line of git branch -r --merged (none when not merged).
\* origin/HEAD, when there is one, points to origin/main
remoteRefs(in) ==
    LET ref(short, full, date, merged, line) ==
            [short |-> short, fullRef |-> refsRemotes \o full, date |-> date,
             merged |-> IF merged THEN line ELSE <<>>]
        branch(n, date, merged) ==
            ref(Full(origin, n), Full(origin, n), date, merged, Full(origin, n))
    IN (IF in.head = None THEN <<>>
        ELSE <<ref(in.head, Full(origin, Detached), in.mainDate, in.mainMerged,
                   Full(origin, Detached) \o <<" ", "-", ">", " ">> \o Full(origin, main))>>)
       \o (IF in.fa = "absent" THEN <<>>
           ELSE <<branch(featA, in.faDate, in.fa = "merged")>>)
       \o <<branch(main, in.mainDate, in.mainMerged)>>

\* the three outputs git gives the remote queries for these refs
remoteStdout(refs) ==
    [list |-> stdoutOf([i \in 1..Len(refs) |-> refs[i].fullRef \o <<TAB>> \o refs[i].short]),
     dates |-> stdoutOf([i \in 1..Len(refs) |-> refs[i].short \o <<TAB>> \o refs[i].date]),
     merged |-> stdoutOf(SelectSeq([i \in 1..Len(refs) |-> <<" ", " ">> \o refs[i].merged],
                                   LAMBDA l : Len(l) > 2))]

\* the four outputs git gives the local queries: every local branch is at
\* the commit of its remote branch and has it as upstream when there is
\* one, and is unmerged otherwise
localStdout(in) ==
    LET names == SelectSeq(<<featA, main>>, LAMBDA n : n \in in.heads)
        tracked(n) == n = main \/ in.fa # "absent"
        merged(n) == IF n = main THEN in.mainMerged ELSE in.fa = "merged"
        date(n) == IF n = main THEN in.mainDate ELSE in.faDate
        mark(n) == IF n = in.current THEN STAR ELSE " "
        each(line(_)) == [i \in 1..Len(names) |-> line(names[i])]
        refLine(n) ==
            <<"r", "e", "f", "s", "/", "h", "e", "a", "d", "s", "/">> \o n \o <<TAB>> \o n
                \o <<TAB>> \o (IF tracked(n) THEN Full(origin, n) ELSE <<>>)
                \o <<TAB>> \o (IF tracked(n) THEN <<"=">> ELSE <<>>)
                \o <<TAB>> \o <<mark(n)>>
        vvLine(n) == verboseLine([name |-> n, subject |-> <<"w", "i", "p">>,
                                  track |-> IF tracked(n) THEN "set" ELSE "none"],
                                 in.current)
    IN [list |-> stdoutOf(each(refLine)),
        dates |-> stdoutOf(each(LAMBDA n : n \o <<TAB>> \o date(n))),
        merged |-> stdoutOf(SelectSeq(each(LAMBDA n : IF merged(n) THEN mergedLine(mark(n), n)
                                                     ELSE <<>>),
                                      LAMBDA l : l # <<>>)),
        verbose |-> stdoutOf(each(vvLine))]

\* getState without the fetch, with the results of the remote queries it
\* awaits on the way
GetState ==
    LET base == resolveBaseBranch(input.baseBranch,
                    IF input.head = None THEN None
                    ELSE refsRemotes \o Full(origin, main) \o <<NL>>,
                    input.heads, input.current)
        out == remoteStdout(remoteRefs(input))
        rows == listRemoteBranches(out.list, protectedBranches)
        mergedSet == detectMergedRemoteBranches(out.merged, base)
        datesMap == getRemoteBranchLastCommitDates(out.dates, Now)
        loc == localStdout(input)
        withStatus ==
            listLocalBranchesWithStatus(
                listLocalBranches(loc.list, protectedBranches),
                Range(detectDeadBranches(loc.merged, input.current, protectedBranches)),
                getBranchLastCommitDates(SelectSeq(linesOf(loc.dates), LAMBDA l : l # <<>>), Now),
                Range(detectGoneBranches(loc.verbose, input.current, protectedBranches)),
                input.staleDays)
    IN QueryReturn([baseBranch |-> base, current |-> input.current,
                    branches |-> rows, mergedSet |-> mergedSet, datesMap |-> datesMap,
                    locals |-> [i \in 1..Len(withStatus) |->
                                   [isCurrent |-> withStatus[i].short = input.current]
                                       @@ withStatus[i]],
                    remotes |-> listRemoteBranchesWithStatus(rows, mergedSet, datesMap,
                                                             input.staleDays)])

\* every way of resolving the base branch, with and without origin/HEAD,
\* with origin/fa absent, unmerged or merged, with every commit date of fa
\* up to now and with none
StateSpec ==
    /\ QueryInit({in \in [baseBranch : {<<"a", "u", "t", "o">>, featA},
                          head : {None, Full(origin, Detached)},
                          heads : SUBSET {main, featA},
                          current : {None, main, featA},
                          fa : {"absent", "unmerged", "merged"},
                          faDate : {<<Digits[k]>> : k \in 1..(Now + 1)} \cup {<<>>},
                          mainDate : {<<Digits[Now + 1]>>},
                          mainMerged : BOOLEAN,
                          staleDays : 1..MaxStaleDays] :
                     in.current \in in.heads \cup {None}})
    /\ [][GetState]_vars

\* ---------------------------------------------------------------------
\* C14
\* ---------------------------------------------------------------------
\* C14: in the state getState returns, the remote record of the base
\* branch's own remote ref, origin/<base>, is never flagged isMerged,
\* however the base branch was resolved.
C14_BaseRemoteNeverMerged ==
    pc = "done" =>
        \A i \in 1..Len(output.remotes) :
            output.remotes[i].short = Full(origin, output.baseBranch)
                => ~output.remotes[i].isMerged

\* ---------------------------------------------------------------------
\* C16
\* ---------------------------------------------------------------------
\* the commit date git prints for the branch of a record, empty when it
\* prints none
DateOf(r) == IF endsWith(r.short, featA) THEN input.faDate ELSE input.mainDate

\* a record has its age and isStale exactly when git printed a date for its
\* branch; the age is then the whole days since that date and isStale says
\* whether it is at least staleDays
StaleIffOldEnough(r) ==
    IF DateOf(r) = <<>> THEN {"isStale", "lastCommitAgeInDays"} \cap DOMAIN r = {}
    ELSE /\ {"isStale", "lastCommitAgeInDays"} \subseteq DOMAIN r
         /\ r.lastCommitAgeInDays = (Now - Number(DateOf(r))) \div 2
         /\ r.isStale = (r.lastCommitAgeInDays >= input.staleDays)

\* C16: every record of the local and of the remote status listing has
\* isStale set exactly when its branch has a last-commit date entry, and
\* then isStale = (ageInDays >= staleDays); a record without date entry has
\* neither isStale nor lastCommitAgeInDays.
C16_StaleIffOldEnough ==
    pc = "done" =>
        /\ \A i \in 1..Len(output.locals) : StaleIffOldEnough(output.locals[i])
        /\ \A i \in 1..Len(output.remotes) : StaleIffOldEnough(output.remotes[i])

\* fa, local and remote, is exactly staleDays days old and stale, and main
\* is staleDays - 1 days old and not stale
C16_Witness ==
    /\ pc = "done"
    /\ Len(output.locals) = 2 /\ Len(output.remotes) = 2
    /\ \A rows \in {output.locals, output.remotes} :
           /\ \A k \in 1..2 : {"isStale", "lastCommitAgeInDays"} \subseteq DOMAIN rows[k]
           /\ rows[1].lastCommitAgeInDays = input.staleDays /\ rows[1].isStale
           /\ rows[2].lastCommitAgeInDays = input.staleDays - 1 /\ ~rows[2].isStale

\* ---------------------------------------------------------------------
\* C17
\* ---------------------------------------------------------------------
\* a name git prints for the symbolic ref origin/HEAD
IsHeadEntry(s) == startsWith(s, Full(origin, Detached))

\* C17: none of the remote branch list, the remote date map, the merged
\* remote set and the remote status listing holds an entry of the symbolic
\* ref origin/HEAD, and the list, the map and the listing hold every real
\* remote branch.
C17_NoSymbolicHeadEntry ==
    pc = "done" =>
        LET real == {r.short : r \in {r \in Range(remoteRefs(input)) :
                                         ~endsWith(r.fullRef, <<SLASH>> \o Detached)}}
            shorts(rows) == {rows[i].short : i \in 1..Len(rows)}
        IN /\ shorts(output.branches) = real
           /\ DOMAIN output.datesMap = real
           /\ shorts(output.remotes) = real
           /\ \A s \in output.mergedSet : ~IsHeadEntry(s)

DeletedBefore(n, i) ==
    \E j \in 1..(i - 1) : cmds[j].kind = "local" /\ cmds[j].name = n /\ cmds[j].ok

\* C26: in executeCleanup every remote delete of the cascade, tracked or
\* untracked, is for a branch that a local delete command of the handler
\* removed before (a branch and its upstream carry the same name here); none
\* is for a name whose local deletion failed or was never attempted.
C26_CascadeOnlyForDeleted ==
    op = "executeCleanup" =>
        \A i \in 1..Len(cmds) :
            cmds[i].kind \in {"tracked", "untracked"} =>
                /\ DeletedBefore(cmds[i].name, i)
                /\ cmds[i].name \in Range(deletedBranches)
                /\ cmds[i].name \notin Range(failedLocal)

\* a cascade ran for a deleted branch while another name of the message
\* could not be deleted
C26_Witness ==
    /\ op = "executeCleanup"
    /\ Len(branches) = 2
    /\ Len(failedLocal) = 1
    /\ Len(CascadeCmds) = 1
    /\ pc = "idle"

\* ---------------------------------------------------------------------
\* C27
\* ---------------------------------------------------------------------
\* C27: whatever message is served (deleteRemote, executeCleanup with its
\* cascade, executeRemoteCleanup, deleteSelectedBranches), no remote delete
\* command is issued for a branch whose name without the remote matches a
\* protected pattern.
C27_NoRemoteDeleteOfProtected ==
    \A i \in 1..Len(cmds) :
        cmds[i].kind # "local" => ~isProtectedBranch(cmds[i].name, protectedBranches)

\* the remote loop was given the protected origin/main and origin/fa: it
\* issued one command, for fa
C27_Witness ==
    /\ op \in {"executeRemoteCleanup", "deleteSelectedBranches"}
    /\ remoteBranches = <<Full(origin, main), Full(origin, featA)>>
    /\ Len(RemoteCmds) = 1 /\ RemoteCmds[1].name = featA
    /\ pc = "idle"

\* ---------------------------------------------------------------------
\* C29
\* ---------------------------------------------------------------------
\* C29: detectDeadBranches returns names of local branches only: the line
\* git prints in place of a branch while HEAD is detached, "(no branch)" or
\* "(HEAD detached at <commit>)", is never among the returned names.
C29_NoPlaceholderReturned ==
    pc = "done" => Range(output) \cap {noBranch, detachedAt} = {}

\* ---------------------------------------------------------------------
\* resolveBaseBranch and getCurrentBranch under failing commands
\* ---------------------------------------------------------------------
\* BaseSpec: one call of getCurrentBranch and of resolveBaseBranch.  The
\* input holds cfg.baseBranch and the outcome of every command the two
\* functions run: head is the branch refs/remotes/origin/HEAD points to
\* (None: git symbolic-ref fails), heads the names for which git show-ref
\* succeeds, revParse what git rev-parse --abbrev-ref HEAD prints (None:
\* the command fails).
BaseCall ==
    LET cur == getCurrentBranchFrom(IF input.revParse = None THEN None
                                    ELSE input.revParse \o <<NL>>)
        symbolicRef == IF input.head = None THEN None
                       ELSE refsRemotes \o Full(origin, input.head) \o <<NL>>
    IN QueryReturn([base |-> resolveBaseBranch(input.baseBranch, symbolicRef, input.heads, cur),
                    current |-> cur])

BaseSpec ==
    /\ QueryInit([baseBranch : {<<"a", "u", "t", "o">>, <<>>, featB},
                  head : {None, main, featA},
                  heads : SUBSET Range(candidates),
                  revParse : {None, Detached, main, featA}])
    /\ [][BaseCall]_vars

\* ---------------------------------------------------------------------
\* C21
\* ---------------------------------------------------------------------
\* C21: resolveBaseBranch returns the first success of a fixed order: the
\* configured base branch when one is set and it is not "auto", as it is
\* and whether or not such a branch exists; else the branch the origin/HEAD
\* pointer names; else the first of main, master, develop that exists as a
\* local branch; else the current branch; else "main".
C21_FirstSuccessWins ==
    pc = "done" =>
        LET isCurrentBranch == input.revParse \notin {None, Detached}
        IN output.base =
              IF input.baseBranch \notin {<<>>, <<"a", "u", "t", "o">>} THEN input.baseBranch
              ELSE IF input.head # None THEN input.head
              ELSE IF candidates[1] \in input.heads THEN candidates[1]
              ELSE IF candidates[2] \in input.heads THEN candidates[2]
              ELSE IF candidates[3] \in input.heads THEN candidates[3]
              ELSE IF isCurrentBranch THEN input.revParse
              ELSE main

\* no base branch is configured, the origin/HEAD pointer names fa while main
\* exists locally and is checked out: the answer is fa
C21_Witness ==
    /\ pc = "done"
    /\ input.baseBranch = <<"a", "u", "t", "o">>
    /\ input.head = featA
    /\ input.heads = Range(candidates)
    /\ input.revParse = main
    /\ output.base = featA

\* ---------------------------------------------------------------------
\* C22
\* ---------------------------------------------------------------------
\* C22: whichever of the underlying commands fail, resolveBaseBranch
\* returns a branch name, and getCurrentBranch returns no name on a
\* detached HEAD and when its command fails (and the name git prints
\* otherwise).
C22_NeverRaises ==
    pc = "done" =>
        /\ output.base \in {featA, featB, main, candidates[2], candidates[3]}
        /\ output.current = IF input.revParse \in {None, Detached} THEN None
                            ELSE input.revParse

\* every command fails: no current branch, and the base branch is the
\* literal main
C22_Witness ==
    /\ pc = "done"
    /\ input.baseBranch = <<"a", "u", "t", "o">>
    /\ input.head = None
    /\ input.heads = {}
    /\ input.revParse = None
    /\ output = [base |-> main, current |-> None]

\* the HEAD is detached and the other commands fail
C22_WitnessDetached ==
    /\ pc = "done"
    /\ input.baseBranch = <<>>
    /\ input.head = None
    /\ input.heads = {}
    /\ input.revParse = Detached
    /\ output = [base |-> main, current |-> None]

\* ---------------------------------------------------------------------
\* refresh(): overlapping get-state requests
\* ---------------------------------------------------------------------
\* RefreshSpec: the panel's refresh() while other messages are served.
\* Every call of refresh() is a request, numbered in call order; a
\* request runs getState one git command at a time and the commands of
\* different requests, and a checkout, interleave at every await.
\*   input      request -> how far its getState is and what it has read
\*   output     the messages posted to the webview, in posting order
\*   refreshes  the request behind each posted message (the message itself
\*              carries no such field)
\*   cfg        getCfg(): autoFetchPrune
\* The repository has the local branches fa and main, fa merged into
\* main, and the remote-tracking refs origin/main and origin/fb, of which
\* origin/fb no longer exists on the remote.
Requests == 1..(MaxCheckouts + 1)

\* getState that starts its queries without awaiting the fetch
Awaits_FetchNotAwaited ==
    <<{"fetchWithPrune", "resolveBaseBranch", "getCurrentBranch"},
      {"resolveBaseBranch", "getCurrentBranch"},
      {"getMergedBranchSet", "listings"}>>

\* the awaits of getState, in order: the fetch (when cfg.autoFetchPrune),
\* then two Promise.all whose members run together.  "listings" stands for
\* listLocalBranches, getBranchLastCommitDates, getGoneBranchSet and
\* listRemoteBranchesWithStatus, which read nothing that changes here.
Awaits ==
    <<{"fetchWithPrune"},
      {"resolveBaseBranch", "getCurrentBranch"},
      {"getMergedBranchSet", "listings"}>>

\* a refresh that checks out the base branch to list what is merged into it
gitArgs_CheckoutBase(step) ==
    IF step = "getMergedBranchSet" THEN {"checkout", "branch --merged"} ELSE {"rev-parse"}

\* the git commands a step of getState runs
gitArgs(step) ==
    IF step = "fetchWithPrune" THEN {"fetch --prune"}
    ELSE IF step = "resolveBaseBranch" THEN {"symbolic-ref", "show-ref", "rev-parse"}
    ELSE IF step = "getMergedBranchSet" THEN {"branch --merged"}
    ELSE IF step = "listings"
        THEN {"for-each-ref", "branch -vv", "rev-parse", "branch -r --merged"}
    ELSE {"rev-parse"}

\* the State getState returns, from what the request's queries returned
getState(rq) ==
    [locals |-> [i \in 1..Len(rq.rows) |->
                    [isMerged |-> rq.rows[i].short \in rq.mergedSet,
                     isCurrent |-> rq.rows[i].short = rq.current] @@ rq.rows[i]],
     current |-> rq.current,
     baseBranch |-> rq.base]

\* case 'ready', case 'refresh': await refresh().  The next request enters
\* getState.
RefreshMsg ==
    /\ \E r \in Requests :
          /\ r = Cardinality({q \in Requests : input[q].at # "idle"}) + 1
          /\ input' = [input EXCEPT ![r].at = "getState",
                                    ![r].pending = Awaits[IF cfg.autoFetchPrune THEN 1 ELSE 2]]
    /\ UNCHANGED <<cfg, repoVars, pc, msgVars, loopVars, logVars, nCheckouts, msg, output>>

\* case 'checkout': await checkoutBranch(msg.name); await refresh()
CheckoutThenRefresh ==
    /\ nCheckouts < MaxCheckouts
    /\ nCheckouts' = nCheckouts + 1
    /\ \E name \in DOMAIN locals \ {current} : current' = name
    /\ \E r \in Requests :
          /\ r = Cardinality({q \in Requests : input[q].at # "idle"}) + 1
          /\ input' = [input EXCEPT ![r].at = "getState",
                                    ![r].pending = Awaits[IF cfg.autoFetchPrune THEN 1 ELSE 2]]
    /\ UNCHANGED <<cfg, locals, remotes, pc, msgVars, loopVars, logVars, msg, output>>

\* one awaited step of a request's getState runs its git commands; the
\* fetch may fail, which getState ignores.  The steps of one Promise.all
\* complete in any order and interleave with the other requests and with a
\* checkout.
RunQuery ==
    \E r \in Requests : \E step \in input[r].pending : \E ok \in BOOLEAN :
        LET rq == input[r]
            rest == rq.pending \ {step}
            cur == getCurrentBranchFrom(current \o <<NL>>)
            heads == {n \in Range(candidates) : n \in DOMAIN locals}
            symbolicRef == IF Full(origin, main) \in remotes
                           THEN refsRemotes \o Full(origin, main) \o <<NL>>
                           ELSE None
            names == <<featA, main>>
            merged == stdoutOf([i \in 1..Len(names) |->
                         mergedLine(IF names[i] = current THEN STAR ELSE " ", names[i])])
            read == IF step = "fetchWithPrune"
                        THEN [rq EXCEPT !.fetch = IF ok THEN "ok" ELSE "failed"]
                    ELSE IF step = "resolveBaseBranch"
                        THEN [rq EXCEPT !.base = resolveBaseBranch(<<"a", "u", "t", "o">>,
                                                    symbolicRef, heads, cur)]
                    ELSE IF step = "getCurrentBranch"
                        THEN [rq EXCEPT !.current = cur]
                    ELSE IF step = "listings"
                        THEN [rq EXCEPT !.rows = [i \in 1..Len(names) |->
                                 [short |-> names[i],
                                  isProtected |-> isProtectedBranch(names[i], protectedBranches)]]]
                    ELSE IF step = "getMergedBranchSet"
                        THEN [rq EXCEPT !.mergedOut = merged]
                    ELSE IF step = "detectDeadBranches: getCurrentBranch"
                        THEN [rq EXCEPT !.mergedSet =
                                 Range(detectDeadBranches(rq.mergedOut, cur, protectedBranches))]
                    ELSE rq
            next == IF step = "fetchWithPrune" THEN Awaits[2]
                    ELSE IF step \in Awaits[2] /\ rest = {} THEN Awaits[3]
                    ELSE IF step = "getMergedBranchSet"
                        THEN rest \cup {"detectDeadBranches: getCurrentBranch"}
                    ELSE rest
        IN /\ ok \/ step = "fetchWithPrune"
           /\ input' = [input EXCEPT ![r] = [read EXCEPT !.pending = next,
                                                          !.issued = rq.issued \cup {step},
                                                          !.git = rq.git \cup gitArgs(step)]]
           /\ remotes' = IF step = "fetchWithPrune" /\ ok
                         THEN remotes \ {Full(origin, featB)} ELSE remotes
           /\ UNCHANGED <<cfg, locals, current, pc, msgVars, loopVars, logVars, nCheckouts,
                          msg, output>>

\* a refresh whose state is dropped when a later request has posted already
PostState_StaleDropped ==
    \E r \in Requests :
        /\ input[r].at = "getState"
        /\ input[r].pending = {}
        /\ IF \E i \in 1..Len(refreshes) : refreshes[i] > r
           THEN UNCHANGED <<output, refreshes>>
           ELSE /\ output' = Append(output, [type |-> "state", state |-> getState(input[r])])
                /\ refreshes' = Append(refreshes, r)
        /\ input' = [input EXCEPT ![r].at = "posted"]
        /\ UNCHANGED <<cfg, repoVars, pc, msgVars, loopVars, cmds, prompts, warning,
                       upstreamsAtStart, nCheckouts, msg>>

\* getState returned: panel.webview.postMessage({ type: 'state', state })
PostState ==
    \E r \in Requests :
        /\ input[r].at = "getState"
        /\ input[r].pending = {}
        /\ output' = Append(output, [type |-> "state", state |-> getState(input[r])])
        /\ refreshes' = Append(refreshes, r)
        /\ input' = [input EXCEPT ![r].at = "posted"]
        /\ UNCHANGED <<cfg, repoVars, pc, msgVars, loopVars, cmds, prompts, warning,
                       upstreamsAtStart, nCheckouts, msg>>

RefreshInit ==
    /\ cfg \in [autoFetchPrune : BOOLEAN]
    /\ locals = [n \in {featA, main} |-> [upstream |-> NoUpstream]]
    /\ current \in DOMAIN locals
    /\ remotes = {Full(origin, main), Full(origin, featB)}
    /\ input = [r \in Requests |->
                   [at |-> "idle", pending |-> {}, issued |-> {}, git |-> {}, fetch |-> "none",
                    base |-> None, current |-> None, rows |-> <<>>, mergedOut |-> None,
                    mergedSet |-> {}]]
    /\ output = <<>>
    /\ refreshes = <<>>
    /\ nCheckouts = 0
    /\ pc = "idle"
    /\ msg = NoMsg
    /\ op = "none"
    /\ branches = <<>>
    /\ remoteBranches = <<>>
    /\ includeRemote = FALSE
    /\ idx = 1
    /\ failedLocal = <<>>
    /\ stillFailed = <<>>
    /\ deletedBranches = <<>>
    /\ failedRemote = <<>>
    /\ trackedRemotes = <<>>
    /\ untrackedRemotes = <<>>
    /\ cmds = <<>>
    /\ prompts = <<>>
    /\ warning = NoWarning
    /\ upstreamsAtStart = [n \in {} |-> NoUpstream]

RefreshNext ==
    \/ RefreshMsg
    \/ CheckoutThenRefresh
    \/ RunQuery
    \/ PostState

RefreshSpec == RefreshInit /\ [][RefreshNext]_vars

\* ---------------------------------------------------------------------
\* C23
\* ---------------------------------------------------------------------
\* C23: in every state posted by a refresh, no local record is flagged
\* isMerged while it is also the current branch (isCurrent) or protected,
\* also when a checkout changes the current branch while the queries of
\* the refresh are in flight.
C23_MergedNeitherCurrentNorProtected ==
    \A i \in 1..Len(output) :
        \A j \in 1..Len(output[i].state.locals) :
            LET b == output[i].state.locals[j]
            IN b.isMerged => ~b.isCurrent /\ ~b.isProtected

\* ---------------------------------------------------------------------
\* C24
\* ---------------------------------------------------------------------
\* C24: the state messages of overlapping refreshes are posted in the
\* order in which their getState calls complete, and a message names no
\* request: every request that completed has posted exactly one message,
\* which holds what that request's own queries read and nothing else.  (So
\* the message posted last may come from the earlier request and show
\* older repository state than the one posted before it: C24_Witness.)
C24_PostedInCompletionOrder ==
    /\ Len(output) = Len(refreshes)
    /\ Range(refreshes) = {r \in Requests : input[r].at = "posted"}
    /\ \A i, j \in 1..Len(refreshes) : refreshes[i] = refreshes[j] => i = j
    /\ \A i \in 1..Len(output) :
          /\ DOMAIN output[i] = {"type", "state"}
          /\ output[i].type = "state"
          /\ DOMAIN output[i].state = {"locals", "current", "baseBranch"}
          /\ output[i].state.current = input[refreshes[i]].current
          /\ output[i].state.baseBranch = input[refreshes[i]].base

\* request 1 read the current branch before the checkout and request 2
\* after it; request 2 posted first, so the panel ends on the state of
\* request 1, whose current branch is no longer the checked-out one
C24_Witness ==
    /\ refreshes = <<2, 1>>
    /\ nCheckouts = 1
    /\ output[1].state.current = current
    /\ output[2].state.current # current
    /\ output[2].state.current # None

\* ---------------------------------------------------------------------
\* C25
\* ---------------------------------------------------------------------
\* the steps of getState after the fetch
Queries == Awaits[2] \cup Awaits[3] \cup {"detectDeadBranches: getCurrentBranch"}

\* C25: when autoFetchPrune is set, a refresh issues its base-branch,
\* current-branch, merged, date and gone queries only after its
\* fetch-with-prune has returned, with success or failure; and a failed
\* fetch does not fail the refresh: the request goes on through all its
\* queries and what it posts is its state.
C25_FetchFirstAndNotFatal ==
    \A r \in Requests :
        /\ cfg.autoFetchPrune /\ input[r].issued \cap Queries # {}
              => input[r].fetch \in {"ok", "failed"}
        /\ input[r].fetch = "failed" =>
              /\ input[r].at \in {"getState", "posted"}
              /\ input[r].pending = {} => Queries \subseteq input[r].issued
              /\ input[r].at = "posted" =>
                    \E i \in 1..Len(output) :
                        /\ refreshes[i] = r
                        /\ output[i] = [type |-> "state", state |-> getState(input[r])]

\* the fetch of request 1 failed, all its queries ran after it and its
\* state is the message the panel received
C25_Witness ==
    /\ cfg.autoFetchPrune
    /\ input[1].fetch = "failed"
    /\ input[1].issued = {"fetchWithPrune"} \cup Queries
    /\ refreshes = <<1>>
    /\ output[1].type = "state"
    /\ output[1].state.current = current

\* ---------------------------------------------------------------------
\* C30
\* ---------------------------------------------------------------------
\* git commands that read the repository and change nothing
ReadOnlyVerbs == {"symbolic-ref", "show-ref", "rev-parse", "for-each-ref", "branch --merged",
                  "branch -vv", "branch -r --merged"}

\* C30: a step of a refresh leaves the local branches and the checked-out
\* branch as they are (only a checkout message changes them), and the
\* commands a refresh has issued are read-only queries plus, when
\* autoFetchPrune is set, the fetch-with-prune: never a create, delete,
\* rename, merge or checkout.
C30_RefreshOnlyReads ==
    [][/\ nCheckouts' = nCheckouts => locals' = locals /\ current' = current
       /\ \A r \in Requests :
             input'[r].git \subseteq
                 ReadOnlyVerbs \cup (IF cfg.autoFetchPrune THEN {"fetch --prune"} ELSE {})]_vars

\* with autoFetchPrune, a refresh ran to its end and its fetch pruned
\* origin/fb: the local branches and the checked-out branch are those the
\* posted state shows
C30_Witness ==
    /\ cfg.autoFetchPrune
    /\ nCheckouts = 0
    /\ input[1].at = "posted"
    /\ input[1].git = ReadOnlyVerbs \cup {"fetch --prune"}
    /\ Full(origin, featB) \notin remotes
    /\ DOMAIN locals = {featA, main}
    /\ output[1].state.current = current

====
